---- MODULE Spec2Model ----
(***************************************************************************)
(* Query classification and routing engine of the gym chatbot:             *)
(* FAQFastPath, QueryNormalizer and ChatbotTools (gym_app/chatbot_tools.py)*)
(* and GymChatbot.chat (gym_app/chatbot.py).                               *)
(*                                                                         *)
(* Python str values are TLA+ strings (sequences of characters): Len,      *)
(* SubSeq and \o are the string operations the code uses.                  *)
(***************************************************************************)
EXTENDS Naturals, Integers, Sequences, FiniteSets, TLC

(***************************************************************************)
(* String primitives: Python's  kw in s , str.lower() and the character    *)
(* classes of the re module.                                               *)
(***************************************************************************)
UpperLetters == <<"A","B","C","D","E","F","G","H","I","J","K","L","M",
                  "N","O","P","Q","R","S","T","U","V","W","X","Y","Z">>
LowerLetters == <<"a","b","c","d","e","f","g","h","i","j","k","l","m",
                  "n","o","p","q","r","s","t","u","v","w","x","y","z">>
Digits == {"0","1","2","3","4","5","6","7","8","9"}
UpperSet == {UpperLetters[i] : i \in 1..26}
LowerSet == {LowerLetters[i] : i \in 1..26}

\* the character of s at position i, "" outside the string
CharAt(s, i) == IF i >= 1 /\ i <= Len(s) THEN SubSeq(s, i, i) ELSE ""

\* s[i:]
Suffix(s, i) == SubSeq(s, i, Len(s))

\* s[i:i+len(p)] == p
MatchAt(s, i, p) == i >= 1 /\ i + Len(p) - 1 <= Len(s) /\ SubSeq(s, i, i + Len(p) - 1) = p

\* Python  kw in s
In(kw, s) == \E i \in 1..(Len(s) - Len(kw) + 1) : MatchAt(s, i, kw)

LowerChar(c) == IF c \in UpperSet
                THEN LowerLetters[CHOOSE i \in 1..26 : UpperLetters[i] = c]
                ELSE c

\* str.lower(), character by character (halving keeps the evaluation shallow)
RECURSIVE lower(_)
lower(s) ==
  IF Len(s) <= 1 THEN LowerChar(s)
  ELSE LET h == Len(s) \div 2
       IN lower(SubSeq(s, 1, h)) \o lower(SubSeq(s, h + 1, Len(s)))

\* regex classes \w, \s and [\w\.-]
WordChars == UpperSet \cup LowerSet \cup Digits \cup {"_"}
SpaceChars == {" "}
EmailChars == WordChars \cup {".", "-"}
IsWordChar(c) == c \in WordChars
IsSpace(c) == c \in SpaceChars
IsEmailChar(c) == c \in EmailChars

\* regex \b in front of position i (1..Len(s)+1)
WordBoundary(s, i) == IsWordChar(CharAt(s, i - 1)) # IsWordChar(CharAt(s, i))

\* every substring of s:  kw in s  is  kw \in Substrings(s).  A text that is
\* searched for many keywords is searched through this set.
Substrings(s) == {SubSeq(s, i, j) : i \in 1..(Len(s) + 1), j \in 0..Len(s)}

\* variant of CountIn that counts a keyword list once however many of its
\* keywords occur
CountAny(keywords, substrings) ==
  IF \E i \in 1..Len(keywords) : keywords[i] \in substrings THEN 1 ELSE 0

\* sum(1 for kw in keywords if kw in text), text given by its substrings
CountIn(keywords, substrings) ==
  Cardinality({i \in 1..Len(keywords) : keywords[i] \in substrings})

\* Python None
None == "<None>"

(***************************************************************************)
(* FAQFastPath.FAQ_DATABASE: topic key, keywords, answer (the answer text  *)
(* is abbreviated to "answer:<key>"; the 48 answers are pairwise distinct  *)
(* non-empty texts).  Sequence order = dict insertion order.               *)
(***************************************************************************)
FAQ_DATABASE ==
  <<
    [key |-> "membership_plans", answer |-> "answer:membership_plans",
     keywords |-> <<"membership", "plan", "plans", "subscribe", "subscription", "packages", "what plans", "available plans">>],
    [key |-> "membership_cost", answer |-> "answer:membership_cost",
     keywords |-> <<"how much", "price", "cost", "fee", "charge", "expensive", "membership cost", "plan price">>],
    [key |-> "membership_renewal", answer |-> "answer:membership_renewal",
     keywords |-> <<"renew", "renewal", "extend", "extension", "expired", "expire", "after expiration", "reactivate">>],
    [key |-> "membership_difference", answer |-> "answer:membership_difference",
     keywords |-> <<"difference", "membership vs", "walk-in vs", "vs walk-in", "pass vs membership", "what is difference">>],
    [key |-> "membership_benefits", answer |-> "answer:membership_benefits",
     keywords |-> <<"benefit", "benefits", "included", "what do i get", "what comes with", "membership include">>],
    [key |-> "membership_transfer", answer |-> "answer:membership_transfer",
     keywords |-> <<"transfer", "give to", "share", "someone else", "another person">>],
    [key |-> "membership_cancel", answer |-> "answer:membership_cancel",
     keywords |-> <<"cancel", "cancellation", "stop", "pause", "refund", "want to cancel", "unsubscribe">>],
    [key |-> "membership_pause", answer |-> "answer:membership_pause",
     keywords |-> <<"pause", "freeze", "hold", "temporary", "vacation", "coming back">>],
    [key |-> "membership_family", answer |-> "answer:membership_family",
     keywords |-> <<"family", "group", "referral", "friend", "multiple", "bulk", "discount">>],
    [key |-> "membership_guest", answer |-> "answer:membership_guest",
     keywords |-> <<"guest", "bring friend", "visitor", "visitor pass", "bring someone">>],
    [key |-> "payment_methods", answer |-> "answer:payment_methods",
     keywords |-> <<"payment", "pay", "how to pay", "accept", "method", "cash", "gcash", "card", "credit">>],
    [key |-> "payment_confirm", answer |-> "answer:payment_confirm",
     keywords |-> <<"confirm", "pending", "approval", "wait", "verify", "pending payment", "what does pending mean">>],
    [key |-> "payment_reference", answer |-> "answer:payment_reference",
     keywords |-> <<"reference", "receipt", "number", "reference number", "proof", "gcash reference">>],
    [key |-> "payment_history", answer |-> "answer:payment_history",
     keywords |-> <<"history", "payment history", "past payment", "old payment", "previous", "receipt", "invoice">>],
    [key |-> "payment_late", answer |-> "answer:payment_late",
     keywords |-> <<"late", "overdue", "outstanding", "owe", "unpaid", "past due", "delinquent">>],
    [key |-> "payment_refund", answer |-> "answer:payment_refund",
     keywords |-> <<"refund", "refunding", "money back", "return", "wrong payment", "accidental charge">>],
    [key |-> "payment_invoice", answer |-> "answer:payment_invoice",
     keywords |-> <<"invoice", "receipt", "bill", "documentation", "tax", "company", "proof of payment">>],
    [key |-> "payment_failed", answer |-> "answer:payment_failed",
     keywords |-> <<"failed", "error", "declined", "unsuccessful", "didn't work", "not accepted", "transaction failed">>],
    [key |-> "kiosk_pin", answer |-> "answer:kiosk_pin",
     keywords |-> <<"kiosk", "pin", "kiosk pin", "check in", "check-in", "check out", "how to check in">>],
    [key |-> "kiosk_forgot_pin", answer |-> "answer:kiosk_forgot_pin",
     keywords |-> <<"forgot", "lost", "reset", "don't remember", "forget pin", "new pin", "generate pin">>],
    [key |-> "kiosk_multiple_checkin", answer |-> "answer:kiosk_multiple_checkin",
     keywords |-> <<"checked in twice", "two checkins", "duplicate", "multiple check", "already checked", "late checkout">>],
    [key |-> "kiosk_phone", answer |-> "answer:kiosk_phone",
     keywords |-> <<"phone", "mobile", "app", "not", "kiosk", "alternative", "without kiosk">>],
    [key |-> "kiosk_visitor", answer |-> "answer:kiosk_visitor",
     keywords |-> <<"visitor", "guest", "friend", "bring guest", "guest checkin">>],
    [key |-> "kiosk_issue", answer |-> "answer:kiosk_issue",
     keywords |-> <<"kiosk broken", "kiosk down", "not working", "error", "machine issue", "help check in">>],
    [key |-> "facilities_hours", answer |-> "answer:facilities_hours",
     keywords |-> <<"hours", "open", "close", "time", "when", "operating hours", "schedule">>],
    [key |-> "facilities_equipment", answer |-> "answer:facilities_equipment",
     keywords |-> <<"equipment", "machine", "facility", "facilities", "what do you have", "available", "treadmill">>],
    [key |-> "facilities_rules", answer |-> "answer:facilities_rules",
     keywords |-> <<"rule", "policy", "etiquette", "do and don't", "not allowed", "prohibited">>],
    [key |-> "facilities_locker", answer |-> "answer:facilities_locker",
     keywords |-> <<"locker", "storage", "belongings", "theft", "safe", "lock", "valuables">>],
    [key |-> "facilities_water", answer |-> "answer:facilities_water",
     keywords |-> <<"water", "drink", "hydration", "fountain", "refill", "bottle">>],
    [key |-> "facilities_childcare", answer |-> "answer:facilities_childcare",
     keywords |-> <<"child", "kid", "baby", "childcare", "daycare", "bring kids">>],
    [key |-> "facilities_parking", answer |-> "answer:facilities_parking",
     keywords |-> <<"parking", "park", "car", "vehicle", "space", "lot">>],
    [key |-> "facilities_shower", answer |-> "answer:facilities_shower",
     keywords |-> <<"shower", "wash", "bathroom", "shower facilities", "change", "towel">>],
    [key |-> "register_how", answer |-> "answer:register_how",
     keywords |-> <<"register", "join", "sign up", "create account", "new member", "how to register">>],
    [key |-> "register_requirements", answer |-> "answer:register_requirements",
     keywords |-> <<"requirement", "what do i need", "what to bring", "document", "age", "minimum age">>],
    [key |-> "register_minor", answer |-> "answer:register_minor",
     keywords |-> <<"minor", "under 18", "teen", "young", "parent", "guardian", "permission">>],
    [key |-> "register_student", answer |-> "answer:register_student",
     keywords |-> <<"student", "discount", "school", "college", "university", "student rate">>],
    [key |-> "register_senior", answer |-> "answer:register_senior",
     keywords |-> <<"senior", "senior citizen", "elderly", "age 60", "discount", "elderly discount">>],
    [key |-> "register_pwd", answer |-> "answer:register_pwd",
     keywords |-> <<"pwd", "disabled", "disability", "wheelchair", "accessible", "special need">>],
    [key |-> "workout_beginner", answer |-> "answer:workout_beginner",
     keywords |-> <<"beginner", "never", "new to gym", "first time", "help", "how to start", "no experience">>],
    [key |-> "workout_plan", answer |-> "answer:workout_plan",
     keywords |-> <<"plan", "routine", "program", "workout plan", "what should i do", "schedule">>],
    [key |-> "workout_classes", answer |-> "answer:workout_classes",
     keywords |-> <<"class", "classes", "group", "yoga", "spin", "zumba", "group fitness">>],
    [key |-> "workout_trainer", answer |-> "answer:workout_trainer",
     keywords |-> <<"trainer", "personal trainer", "coach", "training", "one-on-one", "private session">>],
    [key |-> "workout_progress", answer |-> "answer:workout_progress",
     keywords |-> <<"progress", "progress tracking", "measurement", "body composition", "weight">>],
    [key |-> "workout_nutrition", answer |-> "answer:workout_nutrition",
     keywords |-> <<"nutrition", "diet", "eating", "meal", "food", "protein", "supplement">>],
    [key |-> "account_login", answer |-> "answer:account_login",
     keywords |-> <<"login", "sign in", "password", "forgot password", "can't login", "access account">>],
    [key |-> "account_update", answer |-> "answer:account_update",
     keywords |-> <<"update", "change", "edit", "profile", "information", "phone", "address">>],
    [key |-> "account_verify_email", answer |-> "answer:account_verify_email",
     keywords |-> <<"verify", "email", "confirmation", "confirm email", "didn't receive">>],
    [key |-> "account_data", answer |-> "answer:account_data",
     keywords |-> <<"data", "privacy", "delete account", "download", "personal data", "what data">>]
  >>

\* variant of the scan in which a later entry with an equal count replaces
\* the best match (match_count >= best_score)
RECURSIVE faq_scan_last(_, _, _, _, _)
faq_scan_last(db, in_query_lower, i, best_match, best_score) ==
  IF i > Len(db) THEN [answer |-> best_match, score |-> best_score]
  ELSE LET match_count == CountIn(db[i].keywords, in_query_lower)
       IN IF match_count >= best_score /\ match_count > 0
          THEN faq_scan_last(db, in_query_lower, i + 1, db[i].answer, match_count)
          ELSE faq_scan_last(db, in_query_lower, i + 1, best_match, best_score)

\* FAQFastPath.find_faq_match over a corpus db, scanning entries i..Len(db)
\* with the best match and score found so far; in_query_lower is the set of
\* substrings of query_lower
RECURSIVE faq_scan(_, _, _, _, _)
faq_scan(db, in_query_lower, i, best_match, best_score) ==
  IF i > Len(db) THEN [answer |-> best_match, score |-> best_score]
  ELSE LET match_count == CountIn(db[i].keywords, in_query_lower)
       IN IF match_count > best_score
          THEN faq_scan(db, in_query_lower, i + 1, db[i].answer, match_count)
          ELSE faq_scan(db, in_query_lower, i + 1, best_match, best_score)

find_faq_match_in(db, user_query) ==
  LET r == faq_scan(db, Substrings(lower(user_query)), 1, None, 0)
  IN IF r.score > 0 THEN r ELSE [answer |-> None, score |-> 0]

find_faq_match(user_query) == find_faq_match_in(FAQ_DATABASE, user_query)

\* a dict display {key: value, ...} evaluated: a key written twice keeps its
\* first position and its last value, and nothing else is checked
dict_literal(items) ==
  LET firsts == {i \in 1..Len(items) : \A j \in 1..(i - 1) : items[j].key # items[i].key}
      nth(k) == CHOOSE i \in firsts : Cardinality({j \in firsts : j <= i}) = k
      last(key) == CHOOSE j \in 1..Len(items) :
                     /\ items[j].key = key
                     /\ \A m \in (j + 1)..Len(items) : items[m].key # key
  IN [k \in 1..Cardinality(firsts) |-> items[last(items[nth(k)].key)]]

(***************************************************************************)
(* QueryNormalizer                                                         *)
(***************************************************************************)
\* variant of the table with a pair whose singular is a plural listed before it
PLURAL_TO_SINGULAR_chained ==
  << <<"details", "detail">>, <<"members", "member">>, <<"payments", "payment">>,
     <<"plans", "plan">>, <<"passes", "pass">>, <<"sales", "sale">>,
     <<"stats", "stat">>, <<"statistics", "statistic">>, <<"analytics", "analytic">>,
     <<"reports", "report">>, <<"visits", "visit">>, <<"checkins", "checkin">>,
     <<"check-ins", "checkin">>, <<"memberships", "members">>,
     <<"subscriptions", "subscription">>, <<"renewals", "renewal">>,
     <<"expirations", "expiration">>, <<"attendances", "attendance">> >>

\* PLURAL_TO_SINGULAR.items(), in dict order
PLURAL_TO_SINGULAR ==
  << <<"details", "detail">>, <<"members", "member">>, <<"payments", "payment">>,
     <<"plans", "plan">>, <<"passes", "pass">>, <<"sales", "sale">>,
     <<"stats", "stat">>, <<"statistics", "statistic">>, <<"analytics", "analytic">>,
     <<"reports", "report">>, <<"visits", "visit">>, <<"checkins", "checkin">>,
     <<"check-ins", "checkin">>, <<"memberships", "membership">>,
     <<"subscriptions", "subscription">>, <<"renewals", "renewal">>,
     <<"expirations", "expiration">>, <<"attendances", "attendance">> >>

Plurals == {PLURAL_TO_SINGULAR[i][1] : i \in 1..Len(PLURAL_TO_SINGULAR)}
Singulars == {PLURAL_TO_SINGULAR[i][2] : i \in 1..Len(PLURAL_TO_SINGULAR)}

\* PLURAL_TO_SINGULAR[word]
SingularOf(word) ==
  PLURAL_TO_SINGULAR[CHOOSE i \in 1..Len(PLURAL_TO_SINGULAR) : PLURAL_TO_SINGULAR[i][1] = word][2]

\* variant of the derived map in which the first pair of a singular is kept
SINGULAR_TO_PLURAL_first ==
  [s \in Singulars |->
     LET first == CHOOSE i \in 1..Len(PLURAL_TO_SINGULAR) :
                    /\ PLURAL_TO_SINGULAR[i][2] = s
                    /\ \A j \in 1..(i - 1) : PLURAL_TO_SINGULAR[j][2] # s
     IN PLURAL_TO_SINGULAR[first][1]]

\* SINGULAR_TO_PLURAL = {v: k for k, v in PLURAL_TO_SINGULAR.items()}: a later
\* pair with the same singular overwrites an earlier one
SINGULAR_TO_PLURAL ==
  [s \in Singulars |->
     LET last == CHOOSE i \in 1..Len(PLURAL_TO_SINGULAR) :
                   /\ PLURAL_TO_SINGULAR[i][2] = s
                   /\ \A j \in (i + 1)..Len(PLURAL_TO_SINGULAR) : PLURAL_TO_SINGULAR[j][2] # s
     IN PLURAL_TO_SINGULAR[last][1]]

\* WORD_VARIATIONS
WORD_VARIATIONS ==
  [w \in {"info", "detail", "profile", "member", "payment", "checkin", "revenue", "summary"} |->
     CASE w = "info"    -> {"information", "informations", "details", "detail", "data"}
       [] w = "detail"  -> {"details", "info", "information"}
       [] w = "profile" -> {"profiles", "account", "accounts"}
       [] w = "member"  -> {"members", "user", "users", "client", "clients"}
       [] w = "payment" -> {"payments", "transaction", "transactions"}
       [] w = "checkin" -> {"check-in", "check in", "checkins", "check-ins"}
       [] w = "revenue" -> {"sales", "income", "earnings", "proceeds"}
       [] w = "summary" -> {"summaries", "overview", "report", "reports"}]

\* re.sub(r'\b' + plural + r'\b', singular, s) from position i on: leftmost
\* non-overlapping whole-word occurrences are replaced
IsWordMatch(s, i, plural) ==
  MatchAt(s, i, plural) /\ WordBoundary(s, i) /\ WordBoundary(s, i + Len(plural))

RECURSIVE re_sub_word(_, _, _, _)
re_sub_word(s, i, plural, singular) ==
  LET hits == {j \in i..(Len(s) - Len(plural) + 1) : IsWordMatch(s, j, plural)}
  IN IF hits = {} THEN Suffix(s, i)
     ELSE LET m == CHOOSE j \in hits : \A k \in hits : j <= k
          IN SubSeq(s, i, m - 1) \o singular \o re_sub_word(s, m + Len(plural), plural, singular)

\* the loop of normalize_query over PLURAL_TO_SINGULAR.items(), pairs i..
RECURSIVE normalize_from(_, _)
normalize_from(normalized, i) ==
  IF i > Len(PLURAL_TO_SINGULAR) THEN normalized
  ELSE normalize_from(
         re_sub_word(normalized, 1, PLURAL_TO_SINGULAR[i][1], PLURAL_TO_SINGULAR[i][2]),
         i + 1)

\* variant of normalize_query that returns after the first pair of the table
normalize_query_return_in_loop(query) ==
  re_sub_word(lower(query), 1, PLURAL_TO_SINGULAR[1][1], PLURAL_TO_SINGULAR[1][2])

\* QueryNormalizer.normalize_query
normalize_query(query) == normalize_from(lower(query), 1)

\* str.split(): the words of s, separated by runs of spaces
RECURSIVE split(_)
split(s) ==
  IF s = "" THEN <<>>
  ELSE IF IsSpace(SubSeq(s, 1, 1)) THEN split(Suffix(s, 2))
  ELSE LET ends == {j \in 1..Len(s) : IsSpace(CharAt(s, j + 1)) \/ j = Len(s)}
           e == CHOOSE j \in ends : \A k \in ends : j <= k
       IN <<SubSeq(s, 1, e)>> \o split(Suffix(s, e + 1))

\* ' '.join(words)
RECURSIVE join(_)
join(words) ==
  IF Len(words) = 0 THEN ""
  ELSE IF Len(words) = 1 THEN words[1]
  ELSE words[1] \o " " \o join(Tail(words))

\* the phrases expand_keywords adds for word i of a keyword phrase
word_variants(words, i) ==
  LET word == words[i]
      repl(w) == join([words EXCEPT ![i] = w])
  IN (IF word \in Singulars THEN {repl(SINGULAR_TO_PLURAL[word])} ELSE {})
     \cup (IF word \in Plurals THEN {repl(SingularOf(word))} ELSE {})
     \cup (IF word \in DOMAIN WORD_VARIATIONS
           THEN {repl(v) : v \in WORD_VARIATIONS[word]} ELSE {})

\* QueryNormalizer.expand_keywords (a set: the code returns list(set))
expand_keywords(keywords) ==
  {keywords[k] : k \in 1..Len(keywords)}
  \cup UNION {UNION {word_variants(split(keywords[k]), i) : i \in 1..Len(split(keywords[k]))}
              : k \in 1..Len(keywords)}

\* the expanded keywords of matches_any_variation, each normalized
variations(keywords) == {normalize_query(keyword) : keyword \in expand_keywords(keywords)}

\* QueryNormalizer.matches_any_variation, given the substrings of the
\* normalized query and the variations of the keyword list
matches_any_variation(in_query_normalized, keyword_variations) ==
  \E keyword_normalized \in keyword_variations : keyword_normalized \in in_query_normalized

(***************************************************************************)
(* Regular expressions of ChatbotTools, by what re.search does: the        *)
(* leftmost start that has a match, greedy quantifiers with backtracking.  *)
(***************************************************************************)
\* the least element of a non-empty set of numbers; the greatest
Min(S) == CHOOSE x \in S : \A y \in S : x <= y
Max(S) == CHOOSE x \in S : \A y \in S : x >= y

\* j such that s[i..j] is a non-empty run of characters of the class chars
RunEnds(s, i, chars) ==
  LET stops == {k \in i..Len(s) : CharAt(s, k) \notin chars}
  IN i..((IF stops = {} THEN Len(s) + 1 ELSE Min(stops)) - 1)

\* [\w\.-]+@[\w\.-]+ : positions of an "@" with an email character on both sides
EmailAts(s) == {j \in 1..Len(s) : /\ CharAt(s, j) = "@"
                                  /\ IsEmailChar(CharAt(s, j - 1))
                                  /\ IsEmailChar(CharAt(s, j + 1))}

\* re.search(r'[\w\.-]+@[\w\.-]+', s) is not None
has_email_match(s) == EmailAts(s) # {}

\* re.search(r'[\w\.-]+@[\w\.-]+', s).group(0)
email_group(s) ==
  LET at == Min(EmailAts(s))
      first == Min({i \in 1..(at - 1) : \A k \in i..(at - 1) : IsEmailChar(CharAt(s, k))})
      last == Max(RunEnds(s, at + 1, EmailChars))
  IN SubSeq(s, first, last)

\* ends e of a match s[i..e] of [A-Z][a-z]+
CapWordEnds(s, i) ==
  IF CharAt(s, i) \in UpperSet THEN RunEnds(s, i + 1, LowerSet) ELSE {}

\* starts of a match of \s+[A-Z] after position e
NextCapStarts(s, e) == {j + 1 : j \in RunEnds(s, e + 1, SpaceChars)}

\* ends e of a match s[i..e] of [A-Z][a-z]+(?:\s+[A-Z][a-z]+){n,} with n >= more
RECURSIVE NameEnds(_, _, _)
NameEnds(s, i, more) ==
  LET w == CapWordEnds(s, i)
  IN (IF more = 0 THEN w ELSE {})
     \cup UNION {UNION {NameEnds(s, j, IF more = 0 THEN 0 ELSE more - 1)
                        : j \in NextCapStarts(s, e)} : e \in w}

\* \s+(?:w1|w2|...) matches at position p
SpaceThenWord(s, p, words) ==
  \E j \in RunEnds(s, p, SpaceChars) : \E k \in 1..Len(words) : MatchAt(s, j + 1, words[k])

\* '?s?\s+(?:w1|w2|...) matches at position p
PossessiveTail(s, p, words) ==
  \E a \in {0, 1} : \E b \in {0, 1} :
    /\ a = 1 => CharAt(s, p) = "'"
    /\ b = 1 => CharAt(s, p + a) = "s"
    /\ SpaceThenWord(s, p + a + b, words)

\* ends e of group 1 over all matches, starting at i, of
\* ([A-Z][a-z]+(?:\s+[A-Z][a-z]+)*)'?s?\s+(?:w1|w2|...)
PossessiveEnds(s, i, words) == {e \in NameEnds(s, i, 0) : PossessiveTail(s, e + 1, words)}

PossessiveStarts(s, words) == {i \in 1..Len(s) : PossessiveEnds(s, i, words) # {}}

\* re.search of the possessive pattern is not None
has_possessive_match(s, words) == PossessiveStarts(s, words) # {}

\* group(1) of re.search of the possessive pattern, None without a match:
\* leftmost start; the greedy quantifiers make the engine return the longest
\* name that has a match
possessive_group(s, words) ==
  LET starts == PossessiveStarts(s, words)
  IN IF starts = {} THEN None
     ELSE SubSeq(s, Min(starts), Max(PossessiveEnds(s, Min(starts), words)))

\* re.search(r'[A-Z][a-z]+(?:\s+[A-Z][a-z]+)+\s+(?:w1|...)', s) is not None
has_name_pattern(s, words) ==
  \E i \in 1..Len(s) : \E e \in NameEnds(s, i, 1) : SpaceThenWord(s, e + 1, words)

\* PAY-\d{8}-\d{6} with re.IGNORECASE matches at position i
IsReferenceAt(s, i) ==
  /\ i + 18 <= Len(s)
  /\ lower(SubSeq(s, i, i + 3)) = "pay-"
  /\ \A k \in (i + 4)..(i + 11) : CharAt(s, k) \in Digits
  /\ CharAt(s, i + 12) = "-"
  /\ \A k \in (i + 13)..(i + 18) : CharAt(s, k) \in Digits

ReferenceStarts(s) == {i \in 1..Len(s) : IsReferenceAt(s, i)}

\* re.search(r'(PAY-\d{8}-\d{6})', s, re.IGNORECASE).group(1)
reference_group(s) == LET i == Min(ReferenceStarts(s)) IN SubSeq(s, i, i + 18)

(***************************************************************************)
(* ChatbotTools.detect_intent.  Scores are kept in halves, so that the     *)
(* informational default 0.5 is the integer 1 and one keyword hit is 2.    *)
(***************************************************************************)
analytical_keywords ==
  <<"revenue", "sale", "report", "analytic", "statistic", "stat",
    "how many", "how much", "total", "summary", "performance",
    "growth", "trend", "attendance", "retention", "churn",
    "popular", "breakdown", "compare", "comparison", "vs",
    "this week", "this month", "today", "yesterday", "last week", "last month">>

operational_keywords ==
  <<"confirm payment", "approve payment", "generate pin", "create sale",
    "record sale", "send reminder", "find member", "search member",
    "expiring", "pending", "inactive member", "checkin today",
    "who checked in", "mark", "update", "extend membership">>

lookup_keywords ==
  <<"show me", "find", "search", "lookup", "get detail",
    "member profile", "membership status", "payment history",
    "info", "detail", "profile", "what's", "whats", "who's", "whos",
    "info about", "detail about", "member info",
    "give me", "get me", "pull up", "look up">>

Half == 1
One == 2 * Half
EMAIL_BOOST == 3
POSSESSIVE_BOOST == 2
INFORMATIONAL_DEFAULT == Half
MIN_CONFIDENCE == One

\* '@' in query and re.search(r'[\w\.-]+@[\w\.-]+', query)
has_email(query) == In("@", query) /\ has_email_match(query)

\* variant of the possessive test that asks for two capitalized words and a
\* possessive suffix
has_possessive_two_words(query) ==
  \E i \in 1..Len(query) : \E e \in NameEnds(query, i, 1) : \E a \in {0, 1} :
    /\ a = 1 => CharAt(query, e + 1) = "'"
    /\ CharAt(query, e + 1 + a) = "s"
    /\ SpaceThenWord(query, e + 2 + a, <<"info", "detail", "details", "profile">>)

\* re.search(r"[A-Z][a-z]+(?:\s+[A-Z][a-z]+)*'?s?\s+(?:info|details?|profile)", query)
has_possessive(query) == has_possessive_match(query, <<"info", "detail", "details", "profile">>)

\* variant of the scores in which an email adds one point only
intent_scores_small_email_boost(query) ==
  LET in_query_normalized == Substrings(normalize_query(query))
      analytical_score == CountIn(analytical_keywords, in_query_normalized)
      operational_score == CountIn(operational_keywords, in_query_normalized)
      lookup_score == CountIn(lookup_keywords, in_query_normalized)
                      + (IF has_email(query) THEN 1 ELSE 0)
                      + (IF has_possessive(query) THEN POSSESSIVE_BOOST ELSE 0)
  IN << <<"analytical", One * analytical_score>>,
        <<"operational", One * operational_score>>,
        <<"member_lookup", One * lookup_score>>,
        <<"informational", INFORMATIONAL_DEFAULT>> >>

\* the scores dict, in insertion order
intent_scores(query) ==
  LET in_query_normalized == Substrings(normalize_query(query))
      analytical_score == CountIn(analytical_keywords, in_query_normalized)
      operational_score == CountIn(operational_keywords, in_query_normalized)
      lookup_score == CountIn(lookup_keywords, in_query_normalized)
                      + (IF has_email(query) THEN EMAIL_BOOST ELSE 0)
                      + (IF has_possessive(query) THEN POSSESSIVE_BOOST ELSE 0)
  IN << <<"analytical", One * analytical_score>>,
        <<"operational", One * operational_score>>,
        <<"member_lookup", One * lookup_score>>,
        <<"informational", INFORMATIONAL_DEFAULT>> >>

\* variant of max_key that keeps the last key with the greatest value
max_key_last(scores) ==
  scores[Max({i \in 1..Len(scores) : \A j \in 1..Len(scores) : scores[j][2] <= scores[i][2]})]

\* max(scores, key=scores.get): the first key, in dict order, with the greatest value
max_key(scores) ==
  scores[Min({i \in 1..Len(scores) : \A j \in 1..Len(scores) : scores[j][2] <= scores[i][2]})]

\* variant of detect_intent whose threshold also rejects a confidence of 1
detect_intent_above_one(query) ==
  LET best == max_key(intent_scores(query))
      confidence == best[2]
  IN [intent |-> IF confidence <= MIN_CONFIDENCE THEN "informational" ELSE best[1],
      confidence |-> confidence]

\* ChatbotTools.detect_intent: (intent, confidence), confidence in halves
detect_intent(query) ==
  LET best == max_key(intent_scores(query))
      confidence == best[2]
  IN [intent |-> IF confidence < MIN_CONFIDENCE THEN "informational" ELSE best[1],
      confidence |-> confidence]

(***************************************************************************)
(* ChatbotTools helper methods                                             *)
(***************************************************************************)
\* variant of _extract_period in which the phrase earliest in the text wins
extract_period_first_in_text(query_lower) ==
  LET phrases == <<"today", "yesterday", "this week", "last week", "this month",
                   "last month", "this year">>
      tokens == <<"today", "yesterday", "this_week", "last_week", "this_month",
                  "last_month", "this_year">>
      at(k) == {i \in 1..Len(query_lower) : MatchAt(query_lower, i, phrases[k])}
      present == {k \in 1..Len(phrases) : at(k) # {}}
  IN IF present = {} THEN "today"
     ELSE tokens[CHOOSE k \in present : \A j \in present : Min(at(k)) <= Min(at(j))]

\* ChatbotTools._extract_period
extract_period(query_lower) ==
  IF In("today", query_lower) THEN "today"
  ELSE IF In("yesterday", query_lower) THEN "yesterday"
  ELSE IF In("this week", query_lower) THEN "this_week"
  ELSE IF In("last week", query_lower) THEN "last_week"
  ELSE IF In("this month", query_lower) THEN "this_month"
  ELSE IF In("last month", query_lower) THEN "last_month"
  ELSE IF In("this year", query_lower) THEN "this_year"
  ELSE "today"

\* int() of a string of decimal digits
DigitValue(c) == CHOOSE d \in 0..9 : <<"0","1","2","3","4","5","6","7","8","9">>[d + 1] = c

RECURSIVE int(_)
int(s) == IF s = "" THEN 0
          ELSE 10 * int(SubSeq(s, 1, Len(s) - 1)) + DigitValue(SubSeq(s, Len(s), Len(s)))

\* \s*days? matches at position p
DaysTail(s, p) ==
  MatchAt(s, p, "day") \/ \E j \in RunEnds(s, p, SpaceChars) : MatchAt(s, j + 1, "day")

\* starts i and digit-run ends e of the matches of (\d+)\s*days?
DaysMatches(s) ==
  UNION {{<<i, e>> : e \in {x \in RunEnds(s, i, Digits) : DaysTail(s, x + 1)}}
         : i \in {k \in 1..Len(s) : CharAt(s, k) \in Digits}}

\* variant of _extract_days that ignores the default of its caller
extract_days_default_seven(query_lower, default) ==
  LET ms == DaysMatches(query_lower)
  IN IF ms = {} THEN 7
     ELSE LET i == Min({m[1] : m \in ms})
              e == Max({m[2] : m \in {x \in ms : x[1] = i}})
          IN int(SubSeq(query_lower, i, e))

\* ChatbotTools._extract_days: leftmost match, \d+ greedy
extract_days(query_lower, default) ==
  LET ms == DaysMatches(query_lower)
  IN IF ms = {} THEN default
     ELSE LET i == Min({m[1] : m \in ms})
              e == Max({m[2] : m \in {x \in ms : x[1] = i}})
          IN int(SubSeq(query_lower, i, e))

\* str.strip(chars): without leading and trailing characters of chars
strip(s, chars) ==
  LET keep == {i \in 1..Len(s) : CharAt(s, i) \notin chars}
  IN IF keep = {} THEN "" ELSE SubSeq(s, Min(keep), Max(keep))

\* str.split(keyword)[1] when keyword occurs in s: the text between its first
\* occurrence and the next one that does not overlap it
part_after(s, keyword) ==
  LET first == Min({i \in 1..Len(s) : MatchAt(s, i, keyword)})
      from == first + Len(keyword)
      later == {i \in from..Len(s) : MatchAt(s, i, keyword)}
  IN IF later = {} THEN Suffix(s, from) ELSE SubSeq(s, from, Min(later) - 1)

(***************************************************************************)
(* ChatbotTools.route_query.  A route decision names the rule that         *)
(* returned, the tool method it called and the arguments it passed; the    *)
(* code returns the text that tool answers with.                           *)
(***************************************************************************)
Unmatched ==
  [matched |-> FALSE, rule |-> None, tool |-> None, arg |-> None, days |-> <<>>, prompt |-> FALSE]

Call(rule, tool, arg) ==
  [matched |-> TRUE, rule |-> rule, tool |-> tool, arg |-> arg, days |-> <<>>, prompt |-> FALSE]

CallDays(rule, tool, days) ==
  [matched |-> TRUE, rule |-> rule, tool |-> tool, arg |-> None, days |-> <<days>>, prompt |-> FALSE]

\* the reply "Please provide a payment reference number ..." (no tool is called)
Prompt(rule) ==
  [matched |-> TRUE, rule |-> rule, tool |-> None, arg |-> None, days |-> <<>>, prompt |-> TRUE]

\* self.operations of ChatbotTools.__init__: an OperationsExecutor for an
\* authenticated user, None for an anonymous one
Roles == {"none", "member", "staff", "admin"}
has_operations(user) == user # "none"

\* the texts route_query works on: the query, query_lower, query_normalized,
\* and the substrings of the last two
Texts(query) ==
  LET query_lower == lower(query)
      query_normalized == normalize_query(query)
  IN [query |-> query,
      query_lower |-> query_lower,
      query_normalized |-> query_normalized,
      in_lower |-> Substrings(query_lower),
      in_normalized |-> Substrings(query_normalized)]

\* the keyword lists handed to matches_any_variation, and their variations
revenue_keywords == <<"revenue", "sale", "income", "earning">>
revenue_variations == variations(revenue_keywords)
growth_keywords == <<"new member", "membership growth", "member growth", "how many new">>
growth_variations == variations(growth_keywords)
attendance_keywords == <<"attendance", "checkin", "visit", "peak hour", "busy">>
attendance_variations == variations(attendance_keywords)
retention_keywords == <<"retention", "churn", "renewal">>
retention_variations == variations(retention_keywords)
plan_popularity_keywords == <<"popular plan", "best-selling", "top plan", "most subscribed">>
plan_popularity_variations == variations(plan_popularity_keywords)
pending_payments_keywords == <<"pending payment", "outstanding">>
pending_payments_variations == variations(pending_payments_keywords)
own_information_keywords ==
  <<"show me my", "my information", "my detail", "my profile", "my info", "my account">>
own_information_variations == variations(own_information_keywords)
self_duration_keywords ==
  <<"how long", "days remaining", "how many days", "membership duration",
    "expires when", "when expire", "how long until">>
self_duration_variations == variations(self_duration_keywords)
self_duration_gate == {"my", "i have", "i've", "expire", "left"}

revenue_rule(t) ==
  IF matches_any_variation(t.in_normalized, revenue_variations)
  THEN Call("revenue", "get_revenue_report", extract_period(t.query_lower))
  ELSE Unmatched

growth_rule(t) ==
  IF matches_any_variation(t.in_normalized, growth_variations)
  THEN Call("growth", "get_membership_growth_report", extract_period(t.query_lower))
  ELSE Unmatched

attendance_rule(t) ==
  IF \/ matches_any_variation(t.in_normalized, attendance_variations)
     \/ "who checked in" \in t.in_lower
     \/ "checked in today" \in t.in_lower
  THEN IF "today" \in t.in_lower \/ "who checked in" \in t.in_lower
       THEN Call("attendance", "get_todays_checkins", None)
       ELSE Call("attendance", "get_attendance_report", extract_period(t.query_lower))
  ELSE Unmatched

retention_rule(t) ==
  IF matches_any_variation(t.in_normalized, retention_variations)
  THEN Call("retention", "get_retention_analysis", None)
  ELSE Unmatched

plan_popularity_rule(t) ==
  IF matches_any_variation(t.in_normalized, plan_popularity_variations)
  THEN Call("plan_popularity", "get_plan_popularity_report", extract_period(t.query_lower))
  ELSE Unmatched

pending_payments_rule(t) ==
  IF matches_any_variation(t.in_normalized, pending_payments_variations)
  THEN Call("pending_payments", "get_pending_payments", None)
  ELSE Unmatched

\* variant of the confirm-payment rule that falls through without a reference
confirm_payment_rule_silent(t) ==
  IF "confirm payment" \in t.in_normalized /\ ReferenceStarts(t.query) # {}
  THEN Call("confirm_payment", "confirm_payment", reference_group(t.query))
  ELSE Unmatched

confirm_payment_rule(t) ==
  IF "confirm payment" \in t.in_normalized
  THEN IF ReferenceStarts(t.query) # {}
       THEN Call("confirm_payment", "confirm_payment", reference_group(t.query))
       ELSE Prompt("confirm_payment")
  ELSE Unmatched

\* variant of the expiring rule that looks for the word "expiring" instead
\* of the stem "expir"
expiring_rule_whole_word(t) ==
  IF "expiring" \in t.in_normalized
  THEN CallDays("expiring", "find_expiring_memberships", extract_days(t.query_lower, 7))
  ELSE Unmatched

expiring_rule(t) ==
  IF "expir" \in t.in_normalized
  THEN CallDays("expiring", "find_expiring_memberships", extract_days(t.query_lower, 7))
  ELSE Unmatched

inactive_rule(t) ==
  IF "inactive" \in t.in_normalized
  THEN CallDays("inactive", "find_inactive_members", extract_days(t.query_lower, 30))
  ELSE Unmatched

email_rule(user, t) ==
  IF In("@", t.query) /\ has_email_match(t.query) /\ has_operations(user)
  THEN Call("email", "get_member_details", email_group(t.query))
  ELSE Unmatched

own_information_rule(t) ==
  IF matches_any_variation(t.in_normalized, own_information_variations)
  THEN Call("own_information", "get_own_information", None)
  ELSE Unmatched

\* variant of the self-duration rule without the gate
self_duration_rule_ungated(t) ==
  IF matches_any_variation(t.in_normalized, self_duration_variations)
  THEN Call("self_duration", "get_my_membership_duration", None)
  ELSE Unmatched

self_duration_rule(t) ==
  IF /\ matches_any_variation(t.in_normalized, self_duration_variations)
     /\ \E keyword \in self_duration_gate : keyword \in t.in_normalized
  THEN Call("self_duration", "get_my_membership_duration", None)
  ELSE Unmatched

member_lookup_keywords ==
  <<"find member", "search member", "lookup member", "show me",
    "member info", "member detail", "member profile",
    "info about", "detail about", "profile of", "profile for",
    "whats", "what's", "whos", "who's",
    "info", "detail", "profile",
    "give me", "get me", "pull up", "look up",
    "information on", "information about">>

extraction_keywords ==
  <<"find", "search", "lookup", "show me", "give me", "get me",
    "info about", "detail about", "details about", "information about",
    "profile of", "profile for", "whats", "what's", "info for",
    "detail for", "details for", "pull up", "look up",
    "infos about", "profiles of", "profiles for">>

remove_words ==
  {"member", "members", "user", "users", "client", "clients",
   "info", "infos", "information", "informations",
   "detail", "details", "data",
   "profile", "profiles", "account", "accounts",
   "'s", "s", "the", "for", "about", "on", "of"}

\* the characters of word.strip("'\",.?!;:")
StripChars == {"'", "\"", ",", ".", "?", "!", ";", ":"}

\* the name the trigger-phrase scan builds from the text after keyword, "" when
\* no word is left
trigger_name(query_lower, keyword) ==
  LET words == split(strip(part_after(query_lower, keyword), SpaceChars))
      cleaned == [i \in 1..Len(words) |-> strip(words[i], StripChars)]
      cleaned_words == SelectSeq(cleaned, LAMBDA w : lower(w) \notin remove_words /\ Len(w) > 1)
  IN join(SubSeq(cleaned_words, 1, IF Len(cleaned_words) < 4 THEN Len(cleaned_words) ELSE 4))

\* the extraction keywords, in list order, that yield a name
TriggerHits(query_lower) ==
  {k \in 1..Len(extraction_keywords) :
     /\ In(extraction_keywords[k], query_lower)
     /\ Len(trigger_name(query_lower, extraction_keywords[k])) > 2}

InfoWords == <<"info", "information", "detail", "details", "profile", "profiles", "data">>
NamePatternWords == <<"info", "information", "detail", "details", "profile", "profiles">>

member_lookup_variations == variations(member_lookup_keywords)

is_member_lookup(t) ==
  \/ matches_any_variation(t.in_normalized, member_lookup_variations)
  \/ has_name_pattern(t.query, NamePatternWords)

\* variant of the member lookup that scans the trigger phrases before it
\* tries the possessive pattern
member_lookup_rule_trigger_first(t) ==
  LET possessive_match == possessive_group(t.query, InfoWords)
      name == IF possessive_match = None THEN "" ELSE strip(possessive_match, SpaceChars)
      hits == TriggerHits(t.query_lower)
  IN IF ~is_member_lookup(t) THEN Unmatched
     ELSE IF In("@", t.query) /\ has_email_match(t.query)
     THEN Call("member_lookup", "get_member_info_by_email", email_group(t.query))
     ELSE IF hits # {}
     THEN Call("member_lookup", "get_member_information_by_name",
               trigger_name(t.query_lower, extraction_keywords[Min(hits)]))
     ELSE IF name # ""
     THEN Call("member_lookup", "get_member_information_by_name", name)
     ELSE Unmatched

member_lookup_rule(t) ==
  LET possessive_match == possessive_group(t.query, InfoWords)
      name == IF possessive_match = None THEN "" ELSE strip(possessive_match, SpaceChars)
      hits == TriggerHits(t.query_lower)
  IN IF ~is_member_lookup(t) THEN Unmatched
     ELSE IF In("@", t.query) /\ has_email_match(t.query)
     THEN Call("member_lookup", "get_member_info_by_email", email_group(t.query))
     ELSE IF name # ""
     THEN Call("member_lookup", "get_member_information_by_name", name)
     ELSE IF hits # {}
     THEN Call("member_lookup", "get_member_information_by_name",
               trigger_name(t.query_lower, extraction_keywords[Min(hits)]))
     ELSE Unmatched

\* the member identifier of the PIN rule: for keyword in ['for', 'to']
pin_member(query_lower, keyword) == strip(part_after(query_lower, keyword), SpaceChars)

generate_pin_rule(t) ==
  LET query_lower == t.query_lower
      for_hit == "for" \in t.in_lower /\ pin_member(query_lower, "for") # ""
      to_hit == "to" \in t.in_lower /\ pin_member(query_lower, "to") # ""
  IN IF ~("generate pin" \in t.in_lower \/ "create pin" \in t.in_lower) THEN Unmatched
     ELSE IF for_hit THEN Call("generate_pin", "generate_member_pin", pin_member(query_lower, "for"))
     ELSE IF to_hit THEN Call("generate_pin", "generate_member_pin", pin_member(query_lower, "to"))
     ELSE Unmatched

summary_keywords == {"summary", "overview", "performance", "dashboard"}

summary_rule(t) ==
  IF \E kw \in summary_keywords : kw \in t.in_lower
  THEN Call("summary", "get_comprehensive_summary", extract_period(t.query_lower))
  ELSE Unmatched

\* variant of the order with the summary rule ahead of the attendance rule
RuleOrder_summary_early ==
  <<"revenue", "growth", "summary", "attendance", "retention", "plan_popularity",
    "pending_payments", "confirm_payment", "expiring", "inactive", "email",
    "own_information", "self_duration", "member_lookup", "generate_pin">>

\* the rules of route_query in the order of their if statements; a rule that
\* does not return falls through to the next
RuleOrder ==
  <<"revenue", "growth", "attendance", "retention", "plan_popularity",
    "pending_payments", "confirm_payment", "expiring", "inactive", "email",
    "own_information", "self_duration", "member_lookup", "generate_pin", "summary">>

rule_result(name, user, t) ==
  CASE name = "revenue"          -> revenue_rule(t)
    [] name = "growth"           -> growth_rule(t)
    [] name = "attendance"       -> attendance_rule(t)
    [] name = "retention"        -> retention_rule(t)
    [] name = "plan_popularity"  -> plan_popularity_rule(t)
    [] name = "pending_payments" -> pending_payments_rule(t)
    [] name = "confirm_payment"  -> confirm_payment_rule(t)
    [] name = "expiring"         -> expiring_rule(t)
    [] name = "inactive"         -> inactive_rule(t)
    [] name = "email"            -> email_rule(user, t)
    [] name = "own_information"  -> own_information_rule(t)
    [] name = "self_duration"    -> self_duration_rule(t)
    [] name = "member_lookup"    -> member_lookup_rule(t)
    [] name = "generate_pin"     -> generate_pin_rule(t)
    [] name = "summary"          -> summary_rule(t)

\* the chain over the rules in order, from rule i on: the first rule that
\* returns decides
RECURSIVE route_from(_, _, _, _)
route_from(order, i, user, t) ==
  IF i > Len(order) THEN Unmatched
  ELSE LET r == rule_result(order[i], user, t)
       IN IF r.matched THEN r ELSE route_from(order, i + 1, user, t)

\* ChatbotTools.route_query: the decision (None is Unmatched)
route_query(user, query) == route_from(RuleOrder, 1, user, Texts(query))

(***************************************************************************)
(* The tools route_query calls.  A tool answers with a text; the model     *)
(* keeps its kind: "denied" (a message that starts with the cross mark and *)
(* names the access that is missing), "answer", "error" (the operation     *)
(* found nothing to act on).  The business state is the part of the        *)
(* database the tools write: payment statuses, kiosk PINs, the audit log.  *)
(***************************************************************************)
\* the role flags of the User model
is_authenticated(u) == u # "none"
is_staff_or_admin(u) == u \in {"staff", "admin"}
is_admin(u) == u = "admin"

\* the members and the payment on record
Members ==
  <<[first_name |-> "Juan", last_name |-> "Santos", username |-> "juan", email |-> "juan.santos@example.com"],
    [first_name |-> "Jane", last_name |-> "Doe", username |-> "jane", email |-> "jane.doe@example.com"],
    [first_name |-> "Carlos", last_name |-> "Bautista", username |-> "Carlos Bautista", email |-> "carlos@example.com"]>>

PendingReference == "Pay-20251122-123456"

InitialBusiness ==
  [payments |-> [r \in {PendingReference} |-> "pending"],
   approved_by |-> [r \in {PendingReference} |-> None],
   pins |-> {},
   audit |-> <<>>]

\* field__icontains=text
icontains(field, text) == In(lower(text), lower(field))

Denied(business) == [kind |-> "denied", business |-> business]
Answered(business) == [kind |-> "answer", business |-> business]
Failed(business) == [kind |-> "error", business |-> business]

\* OperationsExecutor._log_operation: one more record in the audit log
log_operation(business, action) == [business EXCEPT !.audit = Append(@, action)]

\* variant of the permission check that lets every authenticated user pass
check_permission_any(u) == is_authenticated(u)

\* OperationsExecutor._check_permission('staff') does not raise
check_permission(u) == is_staff_or_admin(u)

\* the analytics tools: get_revenue_report, get_membership_growth_report,
\* get_attendance_report, get_retention_analysis, get_plan_popularity_report
analytics_report(u, business) ==
  IF ~is_staff_or_admin(u) THEN Denied(business) ELSE Answered(business)

get_comprehensive_summary(u, business) ==
  IF ~is_admin(u) THEN Denied(business) ELSE Answered(business)

\* the listing tools: find_expiring_memberships, find_inactive_members,
\* get_pending_payments; the executor logs the report it made
operations_report(u, business) ==
  IF ~has_operations(u) THEN Denied(business)
  ELSE IF ~check_permission(u) THEN Denied(business)
  ELSE Answered(log_operation(business, "report_generated"))

get_todays_checkins(u, business) ==
  IF ~has_operations(u) THEN Denied(business)
  ELSE IF ~check_permission(u) THEN Denied(business)
  ELSE Answered(business)

\* OperationsExecutor.get_member_details: the members its lookup finds
details_matches(member_identifier) ==
  LET name_parts == split(strip(member_identifier, SpaceChars))
  IN {i \in 1..Len(Members) :
        IF In("@", member_identifier) THEN Members[i].email = member_identifier
        ELSE IF Len(name_parts) >= 2
        THEN /\ icontains(Members[i].first_name, name_parts[1])
             /\ icontains(Members[i].last_name, join(SubSeq(name_parts, 2, Len(name_parts))))
        ELSE \/ icontains(Members[i].first_name, member_identifier)
             \/ icontains(Members[i].last_name, member_identifier)
             \/ Members[i].username = member_identifier}

get_member_details(u, member_identifier, business) ==
  IF ~has_operations(u) THEN Denied(business)
  ELSE IF ~check_permission(u) THEN Denied(business)
  ELSE IF details_matches(member_identifier) = {} THEN Failed(business)
  ELSE Answered(log_operation(business, "data_export"))

\* Payment.confirm(approved_by): status 'confirmed', approver recorded
\* (tests.py, test_payment_confirmation)
confirm(business, payment_reference, approved_by) ==
  [business EXCEPT !.payments[payment_reference] = "confirmed",
                   !.approved_by[payment_reference] = approved_by]

\* variant of the confirmation without the test of the status
confirm_payment_any_status(u, payment_reference, business) ==
  IF ~has_operations(u) THEN Denied(business)
  ELSE IF ~check_permission(u) THEN Denied(business)
  ELSE IF payment_reference \notin DOMAIN business.payments THEN Failed(business)
  ELSE Answered(log_operation(confirm(business, payment_reference, u), "payment_received"))

\* ChatbotTools.confirm_payment over OperationsExecutor.confirm_payment
confirm_payment(u, payment_reference, business) ==
  IF ~has_operations(u) THEN Denied(business)
  ELSE IF ~check_permission(u) THEN Denied(business)
  ELSE IF payment_reference \notin DOMAIN business.payments THEN Failed(business)
  ELSE IF business.payments[payment_reference] # "pending" THEN Failed(business)
  ELSE Answered(log_operation(confirm(business, payment_reference, u), "payment_received"))

\* OperationsExecutor.generate_kiosk_pin: the members its lookup finds
pin_matches(member_identifier) ==
  {i \in 1..Len(Members) :
     \/ Members[i].email = member_identifier
     \/ icontains(Members[i].first_name, member_identifier)
     \/ icontains(Members[i].last_name, member_identifier)}

\* ChatbotTools.generate_member_pin over OperationsExecutor.generate_kiosk_pin
generate_member_pin(u, member_identifier, business) ==
  IF ~has_operations(u) THEN Denied(business)
  ELSE IF ~check_permission(u) THEN Denied(business)
  ELSE IF pin_matches(member_identifier) = {} THEN Failed(business)
  ELSE Answered(log_operation(
         [business EXCEPT !.pins = @ \cup {Min(pin_matches(member_identifier))}], "user_updated"))

\* get_own_information and get_my_membership_duration
own_tool(u, business) ==
  IF ~is_authenticated(u) THEN Denied(business) ELSE Answered(business)

name_matches(member_name) ==
  {i \in 1..Len(Members) :
     \/ icontains(Members[i].first_name, member_name)
     \/ icontains(Members[i].last_name, member_name)
     \/ icontains(Members[i].username, member_name)}

get_member_information_by_name(u, member_name, business) ==
  IF ~is_authenticated(u) THEN Denied(business)
  ELSE IF ~is_staff_or_admin(u) THEN Denied(business)
  ELSE IF name_matches(member_name) = {} THEN Failed(business)
  ELSE Answered(log_operation(business, "data_export"))

get_member_info_by_email(u, email, business) ==
  IF ~is_authenticated(u) THEN Denied(business)
  ELSE IF ~is_staff_or_admin(u) THEN Denied(business)
  ELSE IF \A i \in 1..Len(Members) : lower(Members[i].email) # lower(email) THEN Failed(business)
  ELSE Answered(log_operation(business, "data_export"))

\* the tools that serve the caller's own data
SelfTools == {"get_own_information", "get_my_membership_duration"}

\* the call route_query makes for its decision d, on the business state
tool_call(u, d, business) ==
  CASE ~d.matched -> [kind |-> None, business |-> business]
    [] d.matched /\ d.prompt -> [kind |-> "prompt", business |-> business]
    [] d.tool \in {"get_revenue_report", "get_membership_growth_report", "get_attendance_report",
                   "get_retention_analysis", "get_plan_popularity_report"} ->
         analytics_report(u, business)
    [] d.tool = "get_comprehensive_summary" -> get_comprehensive_summary(u, business)
    [] d.tool \in {"find_expiring_memberships", "find_inactive_members", "get_pending_payments"} ->
         operations_report(u, business)
    [] d.tool = "get_todays_checkins" -> get_todays_checkins(u, business)
    [] d.tool = "get_member_details" -> get_member_details(u, d.arg, business)
    [] d.tool = "confirm_payment" -> confirm_payment(u, d.arg, business)
    [] d.tool = "generate_member_pin" -> generate_member_pin(u, d.arg, business)
    [] d.tool \in SelfTools -> own_tool(u, business)
    [] d.tool = "get_member_information_by_name" -> get_member_information_by_name(u, d.arg, business)
    [] d.tool = "get_member_info_by_email" -> get_member_info_by_email(u, d.arg, business)

\* the reply of a tool wrapper when the engine under it raises: `except
\* Exception as e: return f"Error ...: {str(e)}"`, after the permission check
Raised(business) == [kind |-> "exception", business |-> business]

\* the wrapper's call with the outcome of the engine under it
tool_call_engine(u, d, business, engine) ==
  LET t == tool_call(u, d, business)
  IN IF engine = "raises" /\ t.kind \in {"answer", "error"} THEN Raised(business) ELSE t

(***************************************************************************)
(* Inputs: a query is one to MaxPhrases phrases of a vocabulary, joined by *)
(* single spaces.                                                          *)
(***************************************************************************)
MaxPhrases == 2

RECURSIVE PhraseSeqs(_, _)
PhraseSeqs(vocabulary, n) ==
  IF n = 0 THEN {<<>>}
  ELSE LET shorter == PhraseSeqs(vocabulary, n - 1)
       IN shorter \cup {Append(w, p) : w \in {x \in shorter : Len(x) = n - 1}, p \in vocabulary}

Queries(vocabulary) == {join(w) : w \in PhraseSeqs(vocabulary, MaxPhrases) \ {<<>>}}

\* queries sent through GymChatbot.chat
ChatVocabulary ==
  {"hi there", "benefits", "kiosk", "revenue", "total", "overview", "today",
   "confirm payment", "jane.doe@example.com", "Maria Rosales's details"}
ChatQueries == Queries(ChatVocabulary)

(***************************************************************************)
(* GymChatbot.chat as the steps of one call: the FAQ check, the intent     *)
(* detection, the router and the generative fallback.                      *)
(***************************************************************************)
VARIABLES
  user,          \* role of the chatbot's user: "none" is an anonymous caller
  pc,            \* where the current chat() call stands
  user_message,  \* the query in hand
  faq,           \* (faq_answer, faq_score) of find_faq_match
  intent,        \* (intent, confidence) of detect_intent
  decision,      \* what route_query did
  result,        \* the dict chat() returned
  calls,         \* the components chat() has invoked for this query, in order
  business,      \* what the tools have written: payments, kiosk PINs, audit log
  reply,         \* the kind of text the tool called by route_query answered with
  output,        \* what a helper called on its own returned
  conversation_history,  \* self.conversation_history: the messages kept in memory
  messages,      \* the messages of the last request sent to the generative backend
  faq_database,  \* FAQFastPath.FAQ_DATABASE as the class body left it
  threads        \* the calls of concurrent requests: position and local variables of each

vars == <<user, pc, user_message, faq, intent, decision, result, calls, business, reply, output,
          conversation_history, messages, faq_database, threads>>

\* the audit log is kept to MaxAudit records: no call is taken once it is full
MaxAudit == 2

\* and the history in memory to MaxHistory messages: no call is taken when
\* one more exchange would not fit
MaxHistory == 2

NoFaq == [answer |-> None, score |-> 0]
NoIntent == [intent |-> None, confidence |-> 0]
NoResult == [success |-> FALSE, handled_by |-> None, intent |-> None, response |-> None]

Init ==
  /\ user \in Roles
  /\ pc = "idle"
  /\ user_message = ""
  /\ faq = NoFaq
  /\ intent = NoIntent
  /\ decision = Unmatched
  /\ result = NoResult
  /\ calls = <<>>
  /\ business = InitialBusiness
  /\ reply = None
  /\ output = None
  /\ faq_database = FAQ_DATABASE
  /\ threads = <<>>
  /\ conversation_history = <<>>
  /\ messages = <<>>

\* chat(user_message) is entered
Receive(query) ==
  /\ pc = "idle"
  /\ Len(business.audit) < MaxAudit
  /\ Len(conversation_history) + 2 <= MaxHistory
  /\ pc' = "faq_check"
  /\ user_message' = query
  /\ faq' = NoFaq
  /\ intent' = NoIntent
  /\ decision' = Unmatched
  /\ result' = NoResult
  /\ calls' = <<>>
  /\ reply' = None
  /\ UNCHANGED <<user, business, output, conversation_history, messages, faq_database, threads>>

\* a FAQ check that answers only from a match of three keywords or more
faq_matched_thrice(r) == r.answer # None /\ r.score > 2

\* a FAQ check that answers only from a match of two keywords or more
faq_matched_twice(r) == r.answer # None /\ r.score > 1

\* if faq_answer:
faq_matched(r) == r.answer # None

\* the FAQ check and, on a match, the return
FaqCheck ==
  /\ pc = "faq_check"
  /\ LET r == find_faq_match_in(faq_database, user_message)
     IN /\ faq' = r
        /\ calls' = Append(calls, "find_faq_match")
        /\ IF faq_matched(r)
           THEN /\ result' = [success |-> TRUE, handled_by |-> "faq_fastpath",
                              intent |-> "faq", response |-> r.answer]
                /\ pc' = "done"
           ELSE /\ result' = result
                /\ pc' = "classify"
  /\ UNCHANGED <<user, user_message, intent, decision, business, reply, output, conversation_history, messages, faq_database, threads>>

\* a gate that sends every intent to the router
uses_router_any(i) == i \in {"analytical", "operational", "member_lookup", "informational"}

\* a gate that leaves member_lookup out of the routed intents
uses_router_for_reports(i) == i \in {"analytical", "operational"}

\* if intent in ['analytical', 'operational', 'member_lookup']:
uses_router(i) == i \in {"analytical", "operational", "member_lookup"}

\* Step 1: detect_intent
Classify ==
  /\ pc = "classify"
  /\ LET r == detect_intent(user_message)
     IN /\ intent' = r
        /\ calls' = Append(calls, "detect_intent")
        /\ pc' = IF uses_router(r.intent) THEN "route" ELSE "generate"
  /\ UNCHANGED <<user, user_message, faq, decision, result, business, reply, output, conversation_history, messages, faq_database, threads>>

\* Step 2: route_query, the tool it calls and, when there is a response, the return
\* `if tool_response:` of chat() for texts that hold only denials and
\* errors as empty
truthy_answers_only(kind) == kind \in {"answer", "prompt"}

\* `if tool_response:` of chat(): every text a rule or a wrapper returns is a
\* non-empty string, None is what route_query returns when no rule fires
truthy(kind) == kind # None

\* Step 2 of chat() with the outcomes the engines under the tools can have
RouteWith(engines) ==
  /\ pc = "route"
  /\ \E engine \in engines :
       LET d == route_query(user, user_message)
           t == tool_call_engine(user, d, business, engine)
       IN /\ decision' = d
          /\ business' = t.business
          /\ reply' = t.kind
          /\ calls' = calls \o <<"route_query">>
                            \o (IF d.matched /\ d.tool # None THEN <<d.tool>> ELSE <<>>)
          /\ IF truthy(t.kind)
             THEN /\ result' = [success |-> TRUE, handled_by |-> "tools",
                                intent |-> intent.intent,
                                response |-> IF d.prompt THEN "prompt" ELSE d.tool]
                  /\ pc' = "done"
             ELSE /\ result' = result
                  /\ pc' = "generate"
  /\ UNCHANGED <<user, user_message, faq, intent, output, conversation_history, messages, faq_database, threads>>

\* Step 2 of chat() while the database and the engines work
Route == RouteWith({"ok"})

\* Step 2 of chat() when an engine may raise
RouteRaising == RouteWith({"ok", "raises"})

\* GymChatbot.CONTEXT_WINDOW
CONTEXT_WINDOW == 6

\* a context window of two messages for every intent
context_window_two(i) == 2

\* context_window of _chat_with_ai, by intent
context_window(i) ==
  CASE i = "analytical" -> 0
    [] i = "operational" -> 1
    [] i = "informational" -> 2
    [] i = "member_lookup" -> 0
    [] OTHER -> Min({CONTEXT_WINDOW, 2})

\* history[-n:] for n > 0
last_messages(history, n) == SubSeq(history, Max({1, Len(history) - n + 1}), Len(history))

\* the messages _chat_with_ai sends: the system context, the window of the
\* history, the user message
prompt_messages(history, i, query) ==
  <<[role |-> "system", content |-> "system_context"]>>
  \o (IF Len(history) > 0 /\ context_window(i) > 0
      THEN last_messages(history, context_window(i)) ELSE <<>>)
  \o <<[role |-> "user", content |-> query]>>

\* Step 3: _chat_with_ai; the backend answers, or raises and the error dict is returned
\* the two appends of _chat_with_ai after the backend has answered
remember(history, query, assistant_message) ==
  history \o <<[role |-> "user", content |-> query],
               [role |-> "assistant", content |-> assistant_message]>>

\* _chat_with_ai: the backend call, the appends to the history, then
\* _save_message and _log_chatbot_usage, all inside one try; the except
\* branch returns the "temporarily unavailable" dict. The outcome says where
\* the try ended: "answered" at its return, "backend_raises" at the call of
\* the backend, "save_raises" in _save_message or _log_chatbot_usage, after
\* the appends.
Generate ==
  /\ pc = "generate"
  /\ calls' = Append(calls, "_chat_with_ai")
  /\ messages' = prompt_messages(conversation_history, intent.intent, user_message)
  /\ \E outcome \in {"answered", "backend_raises", "save_raises"} :
       /\ conversation_history' =
            IF outcome = "backend_raises" THEN conversation_history
            ELSE remember(conversation_history, user_message, "assistant_message")
       /\ result' =
            IF outcome = "answered"
            THEN [success |-> TRUE, handled_by |-> "ai",
                  intent |-> intent.intent, response |-> "assistant_message"]
            ELSE [success |-> FALSE, handled_by |-> None,
                  intent |-> None, response |-> "unavailable"]
  /\ pc' = "done"
  /\ UNCHANGED <<user, user_message, faq, intent, decision, business, reply, output, faq_database, threads>>

\* chat() has returned its dict: its local variables are gone
Return ==
  /\ pc = "done"
  /\ pc' = "idle"
  /\ user_message' = ""
  /\ faq' = NoFaq
  /\ intent' = NoIntent
  /\ decision' = Unmatched
  /\ result' = NoResult
  /\ calls' = <<>>
  /\ reply' = None
  /\ messages' = <<>>
  /\ UNCHANGED <<user, business, output, conversation_history, faq_database, threads>>

Next ==
  \/ \E query \in ChatQueries : Receive(query)
  \/ FaqCheck
  \/ Classify
  \/ Route
  \/ Generate
  \/ Return

Spec == Init /\ [][Next]_vars

(***************************************************************************)
(* The three stages called on their own, each on a query of its own        *)
(* vocabulary: FAQFastPath.find_faq_match, ChatbotTools.detect_intent      *)
(* (both static methods) and ChatbotTools(user).route_query.               *)
(***************************************************************************)
FaqVocabulary ==
  {"hello", "benefits", "kiosk", "pin", "guest", "checkin", "phone",
   "refund", "hours", "locker", "Trainer", "confirm payment"}
FaqQueries == Queries(FaqVocabulary)

InitFaq ==
  /\ user = "none"
  /\ pc = "faq_check"
  /\ user_message \in FaqQueries
  /\ faq = NoFaq
  /\ intent = NoIntent
  /\ decision = Unmatched
  /\ result = NoResult
  /\ calls = <<>>
  /\ business = InitialBusiness
  /\ reply = None
  /\ output = None
  /\ faq_database = FAQ_DATABASE
  /\ threads = <<>>
  /\ conversation_history = <<>>
  /\ messages = <<>>

FindFaqMatch ==
  /\ pc = "faq_check"
  /\ faq' = find_faq_match_in(faq_database, user_message)
  /\ calls' = Append(calls, "find_faq_match")
  /\ pc' = "done"
  /\ UNCHANGED <<user, user_message, intent, decision, result, business, reply, output, conversation_history, messages, faq_database, threads>>

NextFaq == FindFaqMatch

SpecFaq == InitFaq /\ [][NextFaq]_vars

IntentVocabulary ==
  {"hi there", "revenue", "total", "How many", "find member", "pending",
   "pull up", "show me", "expiring", "Statistics",
   "jane.doe@example.com", "Juan Santos's info"}
IntentQueries == Queries(IntentVocabulary)

InitIntent ==
  /\ user = "none"
  /\ pc = "classify"
  /\ user_message \in IntentQueries
  /\ faq = NoFaq
  /\ intent = NoIntent
  /\ decision = Unmatched
  /\ result = NoResult
  /\ calls = <<>>
  /\ business = InitialBusiness
  /\ reply = None
  /\ output = None
  /\ faq_database = FAQ_DATABASE
  /\ threads = <<>>
  /\ conversation_history = <<>>
  /\ messages = <<>>

DetectIntent ==
  /\ pc = "classify"
  /\ intent' = detect_intent(user_message)
  /\ calls' = Append(calls, "detect_intent")
  /\ pc' = "done"
  /\ UNCHANGED <<user, user_message, faq, decision, result, business, reply, output, conversation_history, messages, faq_database, threads>>

NextIntent == DetectIntent

SpecIntent == InitIntent /\ [][NextIntent]_vars

RouterVocabulary ==
  {"attendance summary today", "overview", "revenue", "new members", "churn",
   "popular plan", "pending payments", "confirm payment", "Pay-20251122-123456",
   "PAY-2025-12", "expiring in 14 days", "inactive", "jane.doe@example.com",
   "my profile", "how long left", "Carlos Bautista's details",
   "Maria Rosales's details", "generate pin for juan"}
RouterQueries == Queries(RouterVocabulary)

InitRouter ==
  /\ user \in Roles
  /\ pc = "route"
  /\ user_message \in RouterQueries
  /\ faq = NoFaq
  /\ intent = NoIntent
  /\ decision = Unmatched
  /\ result = NoResult
  /\ calls = <<>>
  /\ business = InitialBusiness
  /\ reply = None
  /\ output = None
  /\ faq_database = FAQ_DATABASE
  /\ threads = <<>>
  /\ conversation_history = <<>>
  /\ messages = <<>>

RouteQuery ==
  /\ pc = "route"
  /\ LET d == route_query(user, user_message)
         t == tool_call(user, d, business)
     IN /\ decision' = d
        /\ business' = t.business
        /\ reply' = t.kind
        /\ calls' = calls \o <<"route_query">>
                          \o (IF d.matched /\ d.tool # None THEN <<d.tool>> ELSE <<>>)
  /\ pc' = "done"
  /\ UNCHANGED <<user, user_message, faq, intent, result, output, conversation_history, messages, faq_database, threads>>

NextRouter == RouteQuery

SpecRouter == InitRouter /\ [][NextRouter]_vars

(***************************************************************************)
(* One caller sending query after query through route_query, the tools     *)
(* writing to the same business state.                                     *)
(***************************************************************************)
ToolQueries ==
  {"revenue", "overview", "attendance today", "pending payments",
   "confirm payment", "confirm payment Pay-20251122-123456",
   "generate pin for juan", "jane.doe@example.com", "find member Juan",
   "my profile", "how long left", "expiring in 14 days",
   "how long", "membership duration", "days remaining on my plan",
   "how long do i have", "how long is jimmy a member"}

\* route_query of every caller on every one of these queries
RoutedDecision == [u \in Roles, query \in ToolQueries |-> route_query(u, query)]

InitTools ==
  /\ user \in Roles
  /\ pc = "idle"
  /\ user_message = ""
  /\ faq = NoFaq
  /\ intent = NoIntent
  /\ decision = Unmatched
  /\ result = NoResult
  /\ calls = <<>>
  /\ business = InitialBusiness
  /\ reply = None
  /\ output = None
  /\ faq_database = FAQ_DATABASE
  /\ threads = <<>>
  /\ conversation_history = <<>>
  /\ messages = <<>>

RoutedQuery(query) ==
  /\ pc = "idle"
  /\ Len(business.audit) < MaxAudit
  /\ user_message' = query
  /\ LET d == RoutedDecision[user, query]
         t == tool_call(user, d, business)
     IN /\ decision' = d
        /\ business' = t.business
        /\ reply' = t.kind
        /\ calls' = <<"route_query">> \o (IF d.matched /\ d.tool # None THEN <<d.tool>> ELSE <<>>)
  /\ UNCHANGED <<user, pc, faq, intent, result, output, conversation_history, messages, faq_database, threads>>

NextTools == \E query \in ToolQueries : RoutedQuery(query)

SpecTools == InitTools /\ [][NextTools]_vars

(***************************************************************************)
(* QueryNormalizer.normalize_query called on its own.                      *)
(***************************************************************************)
NormalizerVocabulary ==
  {"Members", "reports", "check-ins", "checkins", "memberships", "supports",
   "Sales", "passes", "stats", "check-ins-ins", "detail", "I want"}

\* "I want " + word for every plural and every singular of the table
WantQueries == {"I want " \o word : word \in Plurals \cup Singulars}

NormalizerQueries == Queries(NormalizerVocabulary) \cup WantQueries

InitNormalizer ==
  /\ user = "none"
  /\ pc = "normalize"
  /\ user_message \in NormalizerQueries
  /\ faq = NoFaq
  /\ intent = NoIntent
  /\ decision = Unmatched
  /\ result = NoResult
  /\ calls = <<>>
  /\ business = InitialBusiness
  /\ reply = None
  /\ output = None
  /\ faq_database = FAQ_DATABASE
  /\ threads = <<>>
  /\ conversation_history = <<>>
  /\ messages = <<>>

NormalizeQuery ==
  /\ pc = "normalize"
  /\ output' = normalize_query(user_message)
  /\ calls' = Append(calls, "normalize_query")
  /\ pc' = "done"
  /\ UNCHANGED <<user, user_message, faq, intent, decision, result, business, reply, conversation_history, messages, faq_database, threads>>

NextNormalizer == NormalizeQuery

SpecNormalizer == InitNormalizer /\ [][NextNormalizer]_vars

(***************************************************************************)
(* The extractors: _extract_period called on the lower-cased query, and    *)
(* the two rules of route_query that call _extract_days, each with its     *)
(* default.                                                                *)
(***************************************************************************)
PeriodVocabulary ==
  {"today", "Yesterday", "this week", "last week", "this month", "Last Month",
   "this year", "revenue", "weekly", "year"}
PeriodQueries == Queries(PeriodVocabulary)

DaysVocabulary ==
  {"expiring", "inactive", "in 14 days", "7days", "30 day", "3 weeks",
   "007  days", "soon", "members", "2 daily"}
DaysQueries == Queries(DaysVocabulary)

InitExtract ==
  /\ user = "none"
  /\ \/ pc = "extract_period" /\ user_message \in PeriodQueries
     \/ pc = "extract_days" /\ user_message \in DaysQueries
  /\ faq = NoFaq
  /\ intent = NoIntent
  /\ decision = Unmatched
  /\ result = NoResult
  /\ calls = <<>>
  /\ business = InitialBusiness
  /\ reply = None
  /\ output = None
  /\ faq_database = FAQ_DATABASE
  /\ threads = <<>>
  /\ conversation_history = <<>>
  /\ messages = <<>>

\* period = self._extract_period(query_lower)
ExtractPeriod ==
  /\ pc = "extract_period"
  /\ output' = extract_period(lower(user_message))
  /\ calls' = Append(calls, "_extract_period")
  /\ pc' = "done"
  /\ UNCHANGED <<user, user_message, faq, intent, decision, result, business, reply, conversation_history, messages, faq_database, threads>>

\* the expiring-memberships rule, reached by the query
ExpiringRule ==
  /\ pc = "extract_days"
  /\ output' = expiring_rule(Texts(user_message))
  /\ calls' = Append(calls, "expiring")
  /\ pc' = "done"
  /\ UNCHANGED <<user, user_message, faq, intent, decision, result, business, reply, conversation_history, messages, faq_database, threads>>

\* the inactive-members rule, reached by the query
InactiveRule ==
  /\ pc = "extract_days"
  /\ output' = inactive_rule(Texts(user_message))
  /\ calls' = Append(calls, "inactive")
  /\ pc' = "done"
  /\ UNCHANGED <<user, user_message, faq, intent, decision, result, business, reply, conversation_history, messages, faq_database, threads>>

NextExtract == ExtractPeriod \/ ExpiringRule \/ InactiveRule

SpecExtract == InitExtract /\ [][NextExtract]_vars

(***************************************************************************)
(* detect_intent with its scores dict kept, on queries with names,         *)
(* possessive forms, info words and email addresses.                       *)
(***************************************************************************)
ScoresVocabulary ==
  {"Juan", "Juan's", "Juans", "juan's", "Juan Santos's", "MARIA's",
   "info", "details", "profile", "Info",
   "jane.doe@example.com", "@", "total revenue", "total sales report",
   "expiring pending update"}
ScoresQueries == Queries(ScoresVocabulary)

InitScores ==
  /\ user = "none"
  /\ pc = "score"
  /\ user_message \in ScoresQueries
  /\ faq = NoFaq
  /\ intent = NoIntent
  /\ decision = Unmatched
  /\ result = NoResult
  /\ calls = <<>>
  /\ business = InitialBusiness
  /\ reply = None
  /\ output = None
  /\ faq_database = FAQ_DATABASE
  /\ threads = <<>>
  /\ conversation_history = <<>>
  /\ messages = <<>>

\* detect_intent(query): output is its scores dict, intent its return value
ScoreIntent ==
  /\ pc = "score"
  /\ output' = intent_scores(user_message)
  /\ intent' = detect_intent(user_message)
  /\ calls' = Append(calls, "detect_intent")
  /\ pc' = "done"
  /\ UNCHANGED <<user, user_message, faq, decision, result, business, reply, conversation_history, messages, faq_database, threads>>

NextScores == ScoreIntent

SpecScores == InitScores /\ [][NextScores]_vars

(***************************************************************************)
(* route_query on member lookups: names after trigger phrases, names in    *)
(* possessive form, and both in one query.                                 *)
(***************************************************************************)
LookupVocabulary ==
  {"find", "show me", "pull up", "Juan Santos's info", "Juan's profile", "juan",
   "info", "details", "member Maria", "Carlos profile"}
LookupQueries == Queries(LookupVocabulary)

InitLookup ==
  /\ user \in Roles
  /\ pc = "route"
  /\ user_message \in LookupQueries
  /\ faq = NoFaq
  /\ intent = NoIntent
  /\ decision = Unmatched
  /\ result = NoResult
  /\ calls = <<>>
  /\ business = InitialBusiness
  /\ reply = None
  /\ output = None
  /\ faq_database = FAQ_DATABASE
  /\ threads = <<>>
  /\ conversation_history = <<>>
  /\ messages = <<>>

SpecLookup == InitLookup /\ [][NextRouter]_vars

(***************************************************************************)
(* route_query on questions about expiry and about the time left.          *)
(***************************************************************************)
ExpiryVocabulary ==
  {"how long until", "my plan expires", "when does my membership expire",
   "days remaining", "expiring in 14 days", "how long", "left", "my expiry date",
   "revenue"}
ExpiryQueries == Queries(ExpiryVocabulary)

InitExpiry ==
  /\ user \in Roles
  /\ pc = "route"
  /\ user_message \in ExpiryQueries
  /\ faq = NoFaq
  /\ intent = NoIntent
  /\ decision = Unmatched
  /\ result = NoResult
  /\ calls = <<>>
  /\ business = InitialBusiness
  /\ reply = None
  /\ output = None
  /\ faq_database = FAQ_DATABASE
  /\ threads = <<>>
  /\ conversation_history = <<>>
  /\ messages = <<>>

SpecExpiry == InitExpiry /\ [][NextRouter]_vars

(***************************************************************************)
(* Callers of every role confirming payments one call after another: two   *)
(* pending payments, a confirmed one, a rejected one, and a reference no   *)
(* payment has.                                                            *)
(***************************************************************************)
SecondPendingReference == "PAY-20251123-000002"
ConfirmedReference == "PAY-20251101-000003"
RejectedReference == "PAY-20251102-000004"
UnknownReference == "PAY-20251199-999999"

PaymentsOnRecord ==
  [payments |-> (PendingReference :> "pending" @@ SecondPendingReference :> "pending"
                 @@ ConfirmedReference :> "confirmed" @@ RejectedReference :> "rejected"),
   approved_by |-> (PendingReference :> None @@ SecondPendingReference :> None
                    @@ ConfirmedReference :> "admin" @@ RejectedReference :> "admin"),
   pins |-> {},
   audit |-> <<>>]

ReferencesCalled == DOMAIN PaymentsOnRecord.payments \cup {UnknownReference}

InitPayments ==
  /\ user \in Roles
  /\ pc = "idle"
  /\ user_message = ""
  /\ faq = NoFaq
  /\ intent = NoIntent
  /\ decision = Unmatched
  /\ result = NoResult
  /\ calls = <<>>
  /\ business = PaymentsOnRecord
  /\ reply = None
  /\ output = None
  /\ faq_database = FAQ_DATABASE
  /\ threads = <<>>
  /\ conversation_history = <<>>
  /\ messages = <<>>

\* one call of confirm_payment by an executor built for caller u
ConfirmPayment ==
  /\ pc = "idle"
  /\ \E u \in Roles, payment_reference \in ReferencesCalled :
       LET t == confirm_payment(u, payment_reference, business)
       IN /\ user' = u
          /\ user_message' = payment_reference
          /\ business' = t.business
          /\ reply' = t.kind
          /\ calls' = <<"confirm_payment">>
  /\ UNCHANGED <<pc, faq, intent, decision, result, output, conversation_history, messages, faq_database, threads>>

NextPayments == ConfirmPayment

SpecPayments == InitPayments /\ [][NextPayments]_vars

(***************************************************************************)
(* One chat() call of a chatbot built on a stored conversation: the        *)
(* history in memory is what _load_conversation read.                      *)
(***************************************************************************)
StoredConversation ==
  <<[role |-> "user", content |-> "first question"],
    [role |-> "assistant", content |-> "first answer"],
    [role |-> "user", content |-> "second question"],
    [role |-> "assistant", content |-> "second answer"]>>

PromptQueries ==
  {"hi there", "total", "mark", "search", "kiosk", "revenue", "inactive",
   "overview", "dashboard", "inactive member", "churn",
   "confirm payment", "confirm payment Pay-20251122-123456",
   "Confirm Payments PAY-20251122-123456", "approve Pay-20251122-123456"}

\* the chatbot has loaded the first n messages stored and chat() is entered
InitPrompt ==
  /\ user \in Roles
  /\ pc = "faq_check"
  /\ user_message \in PromptQueries
  /\ faq = NoFaq
  /\ intent = NoIntent
  /\ decision = Unmatched
  /\ result = NoResult
  /\ calls = <<>>
  /\ business = InitialBusiness
  /\ reply = None
  /\ output = None
  /\ faq_database = FAQ_DATABASE
  /\ threads = <<>>
  /\ \E n \in 0..Len(StoredConversation) : conversation_history = SubSeq(StoredConversation, 1, n)
  /\ messages = <<>>

NextPrompt == FaqCheck \/ Classify \/ Route \/ Generate \/ Return

SpecPrompt == InitPrompt /\ [][NextPrompt]_vars

(***************************************************************************)
(* The same queries while the engines under the tools may raise.           *)
(***************************************************************************)
NextErrors == FaqCheck \/ Classify \/ RouteRaising \/ Generate \/ Return

SpecErrors == InitPrompt /\ [][NextErrors]_vars

(***************************************************************************)
(* The class body of FAQFastPath read with a corpus of its own, then       *)
(* find_faq_match on that corpus.  output is the corpus as it is written.  *)
(***************************************************************************)
HoursEntry == [key |-> "gym_hours", answer |-> "answer:gym_hours", keywords |-> <<"hours", "open">>]
LockerEntry == [key |-> "locker", answer |-> "answer:locker", keywords |-> <<"locker">>]
SecondHoursEntry == [key |-> "gym_hours", answer |-> "answer:schedule", keywords |-> <<"schedule">>]
EmptyEntry == [key |-> "guest", answer |-> "answer:guest", keywords |-> <<>>]

CorpusSources ==
  {<<HoursEntry, LockerEntry>>,
   <<HoursEntry, LockerEntry, SecondHoursEntry>>,
   <<HoursEntry, EmptyEntry, LockerEntry>>,
   <<EmptyEntry, HoursEntry, SecondHoursEntry>>}

CorpusVocabulary == {"hours", "locker", "schedule", "guest"}
CorpusQueries == Queries(CorpusVocabulary)

InitCorpus ==
  /\ user = "none"
  /\ pc = "load"
  /\ user_message \in CorpusQueries
  /\ faq = NoFaq
  /\ intent = NoIntent
  /\ decision = Unmatched
  /\ result = NoResult
  /\ calls = <<>>
  /\ business = InitialBusiness
  /\ reply = None
  /\ output \in CorpusSources
  /\ faq_database = None
  /\ threads = <<>>
  /\ conversation_history = <<>>
  /\ messages = <<>>

\* the class body runs: FAQ_DATABASE = {...}
LoadTables ==
  /\ pc = "load"
  /\ faq_database' = dict_literal(output)
  /\ pc' = "faq_check"
  /\ UNCHANGED <<user, user_message, faq, intent, decision, result, calls, business, reply, output,
                 conversation_history, messages, threads>>

NextCorpus == LoadTables \/ FindFaqMatch

SpecCorpus == InitCorpus /\ [][NextCorpus]_vars

(***************************************************************************)
(* Two requests served at the same time: each one runs find_faq_match,     *)
(* detect_intent and route_query as chat() does, and the loop of           *)
(* find_faq_match advances one FAQ entry per step.  The local variables of *)
(* a call live in the frame of that call.                                  *)
(***************************************************************************)
Threads == {1, 2}

ConcurrentQueries == {"kiosk", "confirm payment today", "revenue", "hi there"}

\* a frame shared by all the calls
frame_shared(t) == 1

\* the frame that holds the local variables of the call of thread t
frame(t) == t

\* a call of chat(query) at its first statement, and the local variables of
\* find_faq_match after best_match = None, best_score = 0
NewThread(query) ==
  [pc |-> "faq_loop", user_message |-> query,
   i |-> 1, best_match |-> None, best_score |-> 0,
   faq |-> NoFaq, intent |-> NoIntent, decision |-> Unmatched]

InitConcurrent ==
  /\ user \in {"member", "staff"}
  /\ pc = "serving"
  /\ user_message = ""
  /\ faq = NoFaq
  /\ intent = NoIntent
  /\ decision = Unmatched
  /\ result = NoResult
  /\ calls = <<>>
  /\ business = InitialBusiness
  /\ reply = None
  /\ output = None
  /\ faq_database = FAQ_DATABASE
  /\ threads \in {[t \in Threads |-> NewThread(q[t])] : q \in [Threads -> ConcurrentQueries]}
  /\ conversation_history = <<>>
  /\ messages = <<>>

\* one pass of `for faq_key, faq_data in cls.FAQ_DATABASE.items()`, or the
\* return after the last entry
FaqLoopStep(t) ==
  LET f == frame(t)
      loc == threads[f]
      query_lower == lower(threads[t].user_message)
  IN /\ threads[t].pc = "faq_loop"
     /\ IF loc.i <= Len(faq_database)
        THEN LET match_count == CountIn(faq_database[loc.i].keywords, Substrings(query_lower))
                 better == match_count > loc.best_score
             IN threads' = [threads EXCEPT
                  ![f].i = loc.i + 1,
                  ![f].best_match = IF better THEN faq_database[loc.i].answer ELSE loc.best_match,
                  ![f].best_score = IF better THEN match_count ELSE loc.best_score]
        ELSE LET r == IF loc.best_score > 0
                      THEN [answer |-> loc.best_match, score |-> loc.best_score]
                      ELSE [answer |-> None, score |-> 0]
             IN threads' = [threads EXCEPT
                  ![t].faq = r,
                  ![t].pc = IF faq_matched(r) THEN "done" ELSE "classify"]
     /\ UNCHANGED <<user, pc, user_message, faq, intent, decision, result, calls, business, reply,
                    output, conversation_history, messages, faq_database>>

\* intent, confidence = self.tools.detect_intent(user_message)
ClassifyStep(t) ==
  /\ threads[t].pc = "classify"
  /\ LET r == detect_intent(threads[t].user_message)
     IN threads' = [threads EXCEPT
          ![t].intent = r,
          ![t].pc = IF uses_router(r.intent) THEN "route" ELSE "done"]
  /\ UNCHANGED <<user, pc, user_message, faq, intent, decision, result, calls, business, reply,
                 output, conversation_history, messages, faq_database>>

\* tool_response = self.tools.route_query(user_message)
RouteStep(t) ==
  /\ threads[t].pc = "route"
  /\ LET d == route_query(user, threads[t].user_message)
         c == tool_call(user, d, business)
     IN /\ threads' = [threads EXCEPT ![t].decision = d, ![t].pc = "done"]
        /\ business' = c.business
  /\ UNCHANGED <<user, pc, user_message, faq, intent, decision, result, calls, reply,
                 output, conversation_history, messages, faq_database>>

NextConcurrent ==
  \E t \in Threads : FaqLoopStep(t) \/ ClassifyStep(t) \/ RouteStep(t)

SpecConcurrent == InitConcurrent /\ [][NextConcurrent]_vars

(***************************************************************************)
(* Properties.  Calls(c) says that chat() has invoked component c for the  *)
(* query in hand; Position(c) is where in the order of its invocations.    *)
(***************************************************************************)
Calls(c) == \E i \in 1..Len(calls) : calls[i] = c
Position(c) == CHOOSE i \in 1..Len(calls) : calls[i] = c

\* C1: in chat() the FAQ fast-path is evaluated first, before the intent
\* detection, the router and the generative backend; whenever it returns a
\* match, the query is answered from the FAQ (handled_by faq_fastpath, the
\* matched answer) and nothing else is invoked for that query.
C1_FaqCheckedFirst ==
  /\ pc \in {"classify", "route", "generate", "done"} => Calls("find_faq_match")
  /\ \A c \in {"detect_intent", "route_query", "_chat_with_ai"} :
       Calls(c) => Calls("find_faq_match") /\ Position("find_faq_match") < Position(c)
  /\ Calls("find_faq_match") /\ faq.answer # None =>
       /\ faq = find_faq_match(user_message)
       /\ calls = <<"find_faq_match">>
       /\ pc = "done"
       /\ result.success
       /\ result.handled_by = "faq_fastpath"
       /\ result.response = faq.answer

C1_AnsweredFromFaq ==
  /\ pc = "done"
  /\ faq.score > 0
  /\ result.handled_by = "faq_fastpath"
  /\ calls = <<"find_faq_match">>

\* C2, as stated: the generative backend is reached only after the FAQ check
\* missed and the router was run on the query and returned unmatched; every
\* query the FAQ does not answer passes through the intent detection and
\* then the router; a successful route is terminal.
C2_GenerateOnlyAfterDoubleMiss ==
  /\ pc = "generate" \/ Calls("_chat_with_ai") =>
       /\ faq.answer = None
       /\ Calls("detect_intent")
       /\ Calls("route_query")
       /\ ~decision.matched
  /\ decision.matched => pc = "done" /\ result.handled_by = "tools" /\ ~Calls("_chat_with_ai")

\* C2, amended: the generative backend is reached only after the FAQ check
\* missed and the intent was detected, and then either the intent is
\* informational and the router is not run at all, or the intent is
\* analytical, operational or member_lookup and the router was run and
\* returned unmatched; the router runs for no other intent; a successful
\* route is terminal.
C2_GenerateAfterFaqMissAndNoRoute ==
  /\ pc \in {"route", "generate"} \/ Calls("route_query") \/ Calls("_chat_with_ai") =>
       /\ faq.answer = None
       /\ Len(calls) >= 2 /\ calls[1] = "find_faq_match" /\ calls[2] = "detect_intent"
       /\ intent = detect_intent(user_message)
  /\ pc = "generate" \/ Calls("_chat_with_ai") =>
       IF intent.intent = "informational"
       THEN ~Calls("route_query")
       ELSE /\ intent.intent \in {"analytical", "operational", "member_lookup"}
            /\ Len(calls) >= 3 /\ calls[3] = "route_query"
            /\ ~decision.matched
            /\ decision = route_query(user, user_message)
  /\ pc = "route" \/ Calls("route_query") =>
       intent.intent \in {"analytical", "operational", "member_lookup"}
  /\ decision.matched => pc = "done" /\ result.handled_by = "tools" /\ ~Calls("_chat_with_ai")

C2_GeneratedAfterDoubleMiss ==
  /\ pc = "done"
  /\ faq.answer = None
  /\ Calls("route_query")
  /\ ~decision.matched
  /\ Calls("_chat_with_ai")
  /\ result.handled_by = "ai"

\* C3: route_query is a first-match-wins chain in the order revenue, growth,
\* attendance, retention, plan popularity, pending payments, confirm payment,
\* expiring, inactive, email, own information, self-duration, member lookup,
\* PIN generation, summary: the outcome is that of the earliest rule in this
\* order that matches (its condition holds and what it must extract is
\* found), and is unmatched when none does; a query with an attendance
\* trigger and a summary trigger is routed by the attendance rule, never by
\* the summary rule.
C3_FirstMatchWins ==
  pc = "done" =>
    LET t == Texts(user_message)
        order == <<"revenue", "growth", "attendance", "retention", "plan_popularity",
                   "pending_payments", "confirm_payment", "expiring", "inactive", "email",
                   "own_information", "self_duration", "member_lookup", "generate_pin",
                   "summary">>
        matching == {i \in 1..Len(order) : rule_result(order[i], user, t).matched}
    IN /\ IF matching = {}
          THEN decision = Unmatched
          ELSE /\ decision = rule_result(order[Min(matching)], user, t)
               /\ decision.rule = order[Min(matching)]
       /\ attendance_rule(t).matched /\ summary_rule(t).matched =>
            decision.rule \in {"revenue", "growth", "attendance"}

C3_AttendanceBeforeSummary ==
  /\ pc = "done"
  /\ user_message = "attendance summary today"
  /\ summary_rule(Texts(user_message)).matched
  /\ decision.rule = "attendance"
  /\ decision.tool = "get_todays_checkins"

\* C4: detect_intent returns the category with the maximum score among
\* analytical, operational, member_lookup (keyword counts plus boosts) and
\* informational (a baseline below 1), the first in that order when
\* several share the maximum, with that score as the confidence; a query with
\* no category keyword, no email and no possessive pattern is informational.
C4_IntentIsFirstMaximum ==
  pc = "done" =>
    LET scores == intent_scores(user_message)
        order == <<"analytical", "operational", "member_lookup", "informational">>
        score(c) == scores[CHOOSE k \in 1..Len(scores) : scores[k][1] = c][2]
        in_normalized == Substrings(normalize_query(user_message))
        keywords == analytical_keywords \o operational_keywords \o lookup_keywords
    IN /\ \E k \in 1..Len(order) :
            /\ intent.intent = order[k]
            /\ intent.confidence = score(order[k])
            /\ \A j \in 1..Len(order) : score(order[j]) <= score(order[k])
            /\ \A j \in 1..(k - 1) : score(order[j]) < score(order[k])
       /\ score("informational") < One
       /\ (/\ \A i \in 1..Len(keywords) : keywords[i] \notin in_normalized
           /\ ~has_email(user_message)
           /\ ~has_possessive(user_message))
          => intent.intent = "informational"

C4_TieGoesToFirst ==
  /\ pc = "done"
  /\ LET scores == intent_scores(user_message)
     IN \E i \in 1..Len(scores) : \E j \in (i + 1)..Len(scores) :
          /\ scores[i][2] = scores[j][2]
          /\ scores[i][2] = intent.confidence
          /\ intent.intent = scores[i][1]

(***************************************************************************)
(* A single stray keyword: exactly one keyword of the three category lists *)
(* occurs in the normalized query, which has no email and no possessive    *)
(* pattern.                                                                *)
(***************************************************************************)
KeywordHits(query) ==
  LET in_normalized == Substrings(normalize_query(query))
      keywords == analytical_keywords \o operational_keywords \o lookup_keywords
  IN Cardinality({i \in 1..Len(keywords) : keywords[i] \in in_normalized})

SingleStrayKeyword(query) ==
  KeywordHits(query) = 1 /\ ~has_email(query) /\ ~has_possessive(query)

\* C5, as stated: a winning score below 1 forces the intent to informational,
\* and for a query with a single stray category keyword chat() never invokes
\* a tool through the router.
C5_StrayKeywordCallsNoTool ==
  /\ Calls("detect_intent") /\ intent.confidence < One => intent.intent = "informational"
  /\ SingleStrayKeyword(user_message) => ~(decision.matched /\ decision.tool # None)

\* C5, amended: a winning score below 1 forces the intent to informational,
\* and the winning score is below 1 only when no category keyword, email or
\* possessive pattern is present; a query whose only signal is a single
\* category keyword scores exactly 1, keeps its category and, when the FAQ
\* does not answer it, is handed to route_query.
C5_ThresholdSparesSingleKeyword ==
  Calls("detect_intent") =>
    /\ intent.confidence < One <=> intent.intent = "informational"
    /\ intent.confidence < One <=>
         (/\ KeywordHits(user_message) = 0
          /\ ~has_email(user_message)
          /\ ~has_possessive(user_message))
    /\ SingleStrayKeyword(user_message) =>
         /\ intent.confidence = One
         /\ intent.intent \in {"analytical", "operational", "member_lookup"}
         /\ pc = "route" \/ Calls("route_query")

C5_StrayKeywordCallsTool ==
  /\ pc = "done"
  /\ SingleStrayKeyword(user_message)
  /\ intent.confidence = One
  /\ decision.matched
  /\ decision.tool # None
  /\ Calls(decision.tool)
  /\ result.handled_by = "tools"

(***************************************************************************)
(* The number of keywords of FAQ entry i that occur in the lower-cased     *)
(* query, and the entries with at least one.                               *)
(***************************************************************************)
KeywordsPresent(i, query) ==
  LET in_lower == Substrings(lower(query))
      keywords == FAQ_DATABASE[i].keywords
  IN Cardinality({k \in 1..Len(keywords) : keywords[k] \in in_lower})

EntriesPresent(query) == {i \in 1..Len(FAQ_DATABASE) : KeywordsPresent(i, query) > 0}

\* C6, as stated: for a query that contains a keyword of exactly one FAQ entry
\* and no keyword of any other entry, find_faq_match returns that entry's
\* answer with score exactly 1.
C6_SingleEntryScoresOne ==
  pc = "done" /\ Cardinality(EntriesPresent(user_message)) = 1 =>
    \A i \in EntriesPresent(user_message) :
      faq.answer = FAQ_DATABASE[i].answer /\ faq.score = 1

\* C6, amended: for a query that contains keywords of exactly one FAQ entry
\* and no keyword of any other entry, find_faq_match returns that entry's
\* answer, with the number of that entry's keywords occurring in the query as
\* the score: 1 when one keyword occurs, more when several do.
C6_SingleEntryScoresItsCount ==
  pc = "done" /\ Cardinality(EntriesPresent(user_message)) = 1 =>
    \A i \in EntriesPresent(user_message) :
      /\ faq.answer = FAQ_DATABASE[i].answer
      /\ faq.score = KeywordsPresent(i, user_message)
      /\ faq.score >= 1

C6_SingleEntryTwoKeywords ==
  /\ pc = "done"
  /\ Cardinality(EntriesPresent(user_message)) = 1
  /\ faq.score = 2
  /\ \E i \in EntriesPresent(user_message) : faq.answer = FAQ_DATABASE[i].answer

\* the corpus in the opposite order
ReversedCorpus == [i \in 1..Len(FAQ_DATABASE) |-> FAQ_DATABASE[Len(FAQ_DATABASE) + 1 - i]]

\* C7: find_faq_match returns the answer and the count of the FAQ entry with
\* the most keywords occurring as substrings of the lower-cased query; when
\* one entry alone has that maximum, the same answer comes out of the corpus
\* scanned in the opposite order; when several entries tie at the maximum,
\* the first of them in corpus order is returned; when no keyword occurs, the
\* result is (None, 0).
C7_BestEntryWins ==
  pc = "done" =>
    LET present == EntriesPresent(user_message)
        best == {i \in present :
                   \A j \in present : KeywordsPresent(j, user_message) <= KeywordsPresent(i, user_message)}
    IN IF present = {}
       THEN faq = [answer |-> None, score |-> 0]
       ELSE /\ faq.answer = FAQ_DATABASE[Min(best)].answer
            /\ faq.score = KeywordsPresent(Min(best), user_message)
            /\ Cardinality(best) = 1 => find_faq_match_in(ReversedCorpus, user_message) = faq

C7_ThreeBeatsOne ==
  /\ pc = "done"
  /\ faq.score = 3
  /\ \E i \in EntriesPresent(user_message) : \E j \in EntriesPresent(user_message) :
       /\ j # i
       /\ KeywordsPresent(i, user_message) = 3
       /\ KeywordsPresent(j, user_message) = 1
       /\ faq.answer = FAQ_DATABASE[i].answer

(***************************************************************************)
(* Payment references as the reader of a query sees them: PAY, in any      *)
(* letter case, a hyphen, 8 digits, a hyphen, 6 digits.                    *)
(***************************************************************************)
IsPaymentReference(token) ==
  /\ Len(token) = 19
  /\ SubSeq(token, 1, 1) \in {"P", "p"}
  /\ SubSeq(token, 2, 2) \in {"A", "a"}
  /\ SubSeq(token, 3, 3) \in {"Y", "y"}
  /\ \A k \in {4, 13} : SubSeq(token, k, k) = "-"
  /\ \A k \in (5..12) \cup (14..19) : SubSeq(token, k, k) \in Digits

PaymentReferences(query) ==
  {i \in 1..(Len(query) - 18) : IsPaymentReference(SubSeq(query, i, i + 18))}

ReachesConfirmPayment(role, query) ==
  \A name \in {"revenue", "growth", "attendance", "retention", "plan_popularity",
               "pending_payments"} : ~rule_result(name, role, Texts(query)).matched

\* C8: a query that reaches the confirm-payment rule and contains the phrase
\* "confirm payment" is never unmatched: with a token PAY-8digits-6digits (in
\* any letter case) in the query the payment-confirmation tool is invoked
\* with the first such token exactly as written in the query; with no token
\* the result is the prompt for a reference and the tool is not invoked.
C8_ConfirmPaymentAlwaysRoutes ==
  (/\ pc = "done"
   /\ ReachesConfirmPayment(user, user_message)
   /\ In("confirm payment", user_message)) =>
    LET references == PaymentReferences(user_message)
    IN /\ decision.matched
       /\ decision.rule = "confirm_payment"
       /\ IF references # {}
          THEN /\ decision.tool = "confirm_payment"
               /\ decision.arg = SubSeq(user_message, Min(references), Min(references) + 18)
               /\ ~decision.prompt
               /\ Calls("confirm_payment")
          ELSE /\ decision.prompt
               /\ decision.tool = None
               /\ ~Calls("confirm_payment")

C8_ConfirmedWithTokenAsWritten ==
  /\ pc = "done"
  /\ In("confirm payment", user_message)
  /\ decision.tool = "confirm_payment"
  /\ decision.arg = "Pay-20251122-123456"

(***************************************************************************)
(* The query "<name>'s <info word>" for a name of two or more words, each  *)
(* a capital letter followed by small letters, single spaces between them. *)
(***************************************************************************)
IsCapitalized(word) ==
  /\ Len(word) >= 2
  /\ SubSeq(word, 1, 1) \in UpperSet
  /\ \A k \in 2..Len(word) : SubSeq(word, k, k) \in LowerSet

IsPersonName(name) ==
  LET words == split(name)
  IN /\ Len(words) >= 2
     /\ join(words) = name
     /\ \A k \in 1..Len(words) : IsCapitalized(words[k])

\* C9, as stated: for every query made of a capitalized multi-word person
\* name followed by 's and an info word (info, details, profile), route_query
\* extracts exactly that name and routes to the member-details-by-name tool
\* with it; no earlier rule captures the query.
C9_PossessiveNameRouted ==
  pc = "done" =>
    \A word \in {"info", "details", "profile"} :
      LET tail == "'s " \o word
          n == Len(user_message) - Len(tail)
          name == SubSeq(user_message, 1, n)
      IN (/\ n >= 1
          /\ SubSeq(user_message, n + 1, Len(user_message)) = tail
          /\ IsPersonName(name)) =>
           /\ decision.rule = "member_lookup"
           /\ decision.tool = "get_member_information_by_name"
           /\ decision.arg = name

\* C10, as stated: for every query with an email-shaped token that none of
\* the rules revenue through inactive matched, route_query routes to the
\* member-details-by-email tool with the first such token, whatever the
\* caller's role (none, member, staff or admin).
C10_EmailRoutedForEveryRole ==
  (/\ pc = "done"
   /\ has_email_match(user_message)
   /\ \A name \in {"revenue", "growth", "attendance", "retention", "plan_popularity",
                   "pending_payments", "confirm_payment", "expiring", "inactive"} :
        ~rule_result(name, user, Texts(user_message)).matched) =>
    /\ decision.matched
    /\ decision.tool = "get_member_details"
    /\ decision.arg = email_group(user_message)

\* C11: for a caller who is neither staff nor admin (anonymous or a plain
\* member), after any sequence of routed queries the business state is what
\* it was at the start (no payment confirmed, no PIN generated, no audit
\* record) and every tool called, other than the two tools that serve the
\* caller's own data, answered with a denial.
C11_UnprivilegedCallerIsDenied ==
  user \in {"none", "member"} =>
    /\ business = InitialBusiness
    /\ decision.matched /\ decision.tool # None /\ decision.tool \notin SelfTools =>
         reply = "denied"

C11_MemberDeniedPaymentConfirmation ==
  /\ user = "member"
  /\ decision.tool = "confirm_payment"
  /\ decision.arg = PendingReference
  /\ reply = "denied"
  /\ business.payments[PendingReference] = "pending"

\* C12: running route_query changes no business state: no payment is
\* confirmed, no PIN is generated and no audit record is written by it.
C12_RouterChangesNoBusinessState == [][business' = business]_vars

\* C13: normalize_query is idempotent: normalizing what it returned returns
\* the same string.
C13_NormalizeIsIdempotent ==
  pc = "done" => normalize_query(output) = output

C13_NormalizedPluralsStay ==
  /\ pc = "done"
  /\ user_message = "memberships Members"
  /\ output = "membership member"

\* C14: for every pair (p, s) of the plural-to-singular table, "I want " + p
\* and "I want " + s normalize to the same string.
C14_PluralAndSingularAgree ==
  pc = "done" =>
    \A i \in 1..Len(PLURAL_TO_SINGULAR) :
      LET p == PLURAL_TO_SINGULAR[i][1]
          s == PLURAL_TO_SINGULAR[i][2]
      IN /\ user_message = "I want " \o p => output = "i want " \o s
         /\ user_message = "I want " \o s => output = "i want " \o s

C14_SecondSpellingFolded ==
  /\ pc = "done"
  /\ user_message = "I want check-ins"
  /\ output = "i want checkin"

\* C15, as stated: SINGULAR_TO_PLURAL is exactly the inverse of
\* PLURAL_TO_SINGULAR: it has the singulars of the table as keys and no
\* others, and for every pair (p, s) it takes the singular s, to which the
\* query "I want " + p was normalized, back to p.
C15_SingularToPluralIsInverse ==
  pc = "done" =>
    /\ DOMAIN SINGULAR_TO_PLURAL = Singulars
    /\ \A i \in 1..Len(PLURAL_TO_SINGULAR) :
         user_message = "I want " \o PLURAL_TO_SINGULAR[i][1] =>
           SINGULAR_TO_PLURAL[PLURAL_TO_SINGULAR[i][2]] = PLURAL_TO_SINGULAR[i][1]

\* C15, amended: SINGULAR_TO_PLURAL has exactly the singulars of the table
\* as keys and maps each to the last plural the table lists for it; it takes
\* s back to p for every pair (p, s) but ("checkins", "checkin"), whose
\* singular is listed again for "check-ins".
C15_SingularToPluralIsLastPlural ==
  pc = "done" =>
    /\ DOMAIN SINGULAR_TO_PLURAL = Singulars
    /\ \A i \in 1..Len(PLURAL_TO_SINGULAR) :
         LET p == PLURAL_TO_SINGULAR[i][1]
             s == PLURAL_TO_SINGULAR[i][2]
             later == {j \in (i + 1)..Len(PLURAL_TO_SINGULAR) : PLURAL_TO_SINGULAR[j][2] = s}
         IN user_message = "I want " \o p =>
              /\ later = {} => SINGULAR_TO_PLURAL[s] = p
              /\ later # {} => SINGULAR_TO_PLURAL[s] = PLURAL_TO_SINGULAR[Max(later)][1]
              /\ SINGULAR_TO_PLURAL[s] # p <=> p = "checkins"

C15_CheckinHasTwoPlurals ==
  /\ pc = "done"
  /\ user_message = "I want checkins"
  /\ output = "i want checkin"
  /\ SINGULAR_TO_PLURAL["checkin"] = "check-ins"

\* C16: the period extractor returns the token of the first phrase of the
\* list today, yesterday, this week, last week, this month, last month, this
\* year that occurs anywhere in the lower-cased query, whatever the order of
\* the phrases in the text, and today when none occurs.
C16_PeriodIsFirstInList ==
  pc = "done" /\ calls = <<"_extract_period">> =>
    LET phrases == <<"today", "yesterday", "this week", "last week", "this month",
                     "last month", "this year">>
        tokens == <<"today", "yesterday", "this_week", "last_week", "this_month",
                    "last_month", "this_year">>
        present == {k \in 1..Len(phrases) : phrases[k] \in Substrings(lower(user_message))}
    IN output = IF present = {} THEN "today" ELSE tokens[Min(present)]

C16_LaterInTextWins ==
  /\ pc = "done"
  /\ user_message = "Last Month Yesterday"
  /\ output = "yesterday"

\* the numbers of s followed by optional spaces and "day": start and value
\* of every maximal run of digits with that continuation
DayCounts(s) ==
  LET digit(k) == CharAt(s, k) \in Digits
      runs == {r \in (1..Len(s)) \X (1..Len(s)) :
                 /\ r[1] <= r[2]
                 /\ \A k \in r[1]..r[2] : digit(k)
                 /\ ~digit(r[1] - 1) /\ ~digit(r[2] + 1)}
      then_day(j) == \E k \in (j + 1)..Len(s) :
                       /\ \A m \in (j + 1)..(k - 1) : CharAt(s, m) = " "
                       /\ SubSeq(s, k, Min({Len(s), k + 2})) = "day"
  IN {r \in runs : then_day(r[2])}

\* C17: the day count passed to the tool is the integer value of the first
\* number of the query that is followed by "day" or "days", and the default
\* of the rule when the query has no such number: 7 for the expiring
\* memberships rule, 30 for the inactive members rule.
C17_DaysOrRuleDefault ==
  pc = "done" /\ calls # <<"_extract_period">> /\ output.matched =>
    LET s == lower(user_message)
        counts == DayCounts(s)
        first == CHOOSE r \in counts : \A x \in counts : r[1] <= x[1]
    IN /\ output.rule = calls[1]
       /\ output.tool = IF output.rule = "expiring" THEN "find_expiring_memberships"
                        ELSE "find_inactive_members"
       /\ output.days = << IF counts # {} THEN int(SubSeq(s, first[1], first[2]))
                           ELSE IF output.rule = "expiring" THEN 7 ELSE 30 >>

C17_FourteenDaysAndDefaults ==
  /\ pc = "done"
  /\ user_message = "inactive in 14 days"
  /\ output.matched
  /\ output.days = <<14>>

\* the points of the member_lookup score that no lookup keyword accounts for
LookupBonus ==
  output[3][2] - One * CountIn(lookup_keywords, Substrings(normalize_query(user_message)))

\* an email-shaped token: an "@" between two characters of [\w.-]
EmailShaped(s) ==
  \E j \in 2..(Len(s) - 1) :
    /\ CharAt(s, j) = "@"
    /\ CharAt(s, j - 1) \in EmailChars
    /\ CharAt(s, j + 1) \in EmailChars

\* w is one or more capitalized words (an upper-case letter, then one or
\* more lower-case letters) separated by spaces
IsCapitalizedName(w) ==
  /\ w # ""
  /\ CharAt(w, 1) \in UpperSet
  /\ CharAt(w, Len(w)) \in LowerSet
  /\ \A k \in 1..Len(w) :
       /\ CharAt(w, k) \in UpperSet \cup LowerSet \cup {" "}
       /\ CharAt(w, k) \in UpperSet => /\ CharAt(w, k + 1) \in LowerSet
                                       /\ k = 1 \/ CharAt(w, k - 1) = " "
       /\ CharAt(w, k) = " " /\ k < Len(w) => CharAt(w, k + 1) \in UpperSet \cup {" "}

\* number of capitalized words of a capitalized name
CapitalizedWords(w) == Cardinality({k \in 1..Len(w) : CharAt(w, k) \in UpperSet})

\* s holds a capitalized name of at least n words, then one of the given
\* suffixes, then spaces, then an info word
NameThenInfoWord(s, n, suffixes) ==
  \E i \in 1..Len(s) : \E e \in i..Len(s) : \E suffix \in suffixes : \E p \in (e + 1)..Len(s) :
    /\ IsCapitalizedName(SubSeq(s, i, e))
    /\ CapitalizedWords(SubSeq(s, i, e)) >= n
    /\ MatchAt(s, e + 1, suffix)
    /\ p > e + Len(suffix) + 1
    /\ \A k \in (e + Len(suffix) + 1)..(p - 1) : CharAt(s, k) = " "
    /\ \E word \in {"info", "detail", "details", "profile"} : MatchAt(s, p, word)

\* C18 as stated: the possessive bonus is added only when the original query
\* holds two or more consecutive capitalized words followed by 's or s and
\* then an info word.
C18_BonusNeedsTwoWordsAndSuffix ==
  pc = "done" /\ calls = <<"detect_intent">> /\ ~EmailShaped(user_message) =>
    (LookupBonus # 0 => NameThenInfoWord(user_message, 2, {"'s", "s"}))

\* C18, amended: the possessive bonus (2) is added exactly when the original
\* query holds one or more capitalized words, optionally followed by ' and
\* optionally by s, then whitespace and an info word: one capitalized word
\* is enough and the possessive suffix is not needed.
C18_BonusForOneWordAndOptionalSuffix ==
  pc = "done" /\ calls = <<"detect_intent">> /\ ~EmailShaped(user_message) =>
    LookupBonus = IF NameThenInfoWord(user_message, 1, {"", "'", "s", "'s"})
                  THEN One * 2 ELSE 0

C18_OneNameWithoutSuffixGetsBonus ==
  /\ pc = "done"
  /\ user_message = "Juan info"
  /\ LookupBonus = One * 2

\* C19: a query with an email-shaped token gets the email bonus of 3 on its
\* member_lookup score, tested on the original query, and when it has fewer
\* than 3 analytical and fewer than 3 operational keyword hits it is
\* classified member_lookup with a confidence of 3 or more.
C19_EmailBoostDominates ==
  pc = "done" /\ calls = <<"detect_intent">> /\ EmailShaped(user_message) =>
    /\ LookupBonus = One * (3 + IF NameThenInfoWord(user_message, 1, {"", "'", "s", "'s"})
                                THEN 2 ELSE 0)
    /\ output[1][2] < One * 3 /\ output[2][2] < One * 3 =>
         intent.intent = "member_lookup" /\ intent.confidence >= One * 3

C19_EmailBeatsTwoAnalyticalHits ==
  /\ pc = "done"
  /\ user_message = "jane.doe@example.com total revenue"
  /\ output[1][2] = One * 2
  /\ intent = [intent |-> "member_lookup", confidence |-> One * 3]

\* the query, normalized, holds one of the keywords
HoldsOneOf(keywords) == \E keyword \in keywords : In(keyword, normalize_query(user_message))

\* the query matches a membership-duration phrase
HoldsDurationPhrase ==
  matches_any_variation(Substrings(normalize_query(user_message)), self_duration_variations)

\* C20 as stated: the self-duration tool is selected only for queries that
\* match a membership-duration phrase and hold a first-person marker (my,
\* i have, i've).
C20_SelfDurationNeedsFirstPerson ==
  decision.matched /\ decision.tool = "get_my_membership_duration" =>
    HoldsDurationPhrase /\ HoldsOneOf({"my", "i have", "i've"})

\* C20, amended: the self-duration tool is selected only for queries that
\* match a membership-duration phrase and hold, anywhere in the normalized
\* query, one of the gate keywords my, i have, i've, expire, left; a query
\* with a duration phrase and none of the five is never routed to it.
C20_SelfDurationNeedsGateKeyword ==
  decision.matched /\ decision.tool = "get_my_membership_duration" =>
    HoldsDurationPhrase /\ HoldsOneOf({"my", "i have", "i've", "expire", "left"})

C20_LeftOpensTheGate ==
  /\ user_message = "how long left"
  /\ decision.matched
  /\ decision.tool = "get_my_membership_duration"
  /\ ~HoldsOneOf({"my", "i have", "i've"})

\* the candidate names of the two extractors of the member lookup for the
\* query: of the possessive pattern (at most one), of the trigger phrases
PossessiveCandidates ==
  IF possessive_group(user_message, InfoWords) = None THEN {}
  ELSE {strip(possessive_group(user_message, InfoWords), SpaceChars)} \ {""}

TriggerCandidates ==
  {trigger_name(lower(user_message), extraction_keywords[k]) : k \in TriggerHits(lower(user_message))}

\* C21: when the member lookup calls the tool that finds a member by name,
\* the name is the candidate of the possessive pattern whenever that pattern
\* yields one, also when a trigger phrase yields a candidate too; a
\* candidate of the trigger phrases is used only when the possessive pattern
\* yields nothing.
C21_PossessiveNameFirst ==
  pc = "done" /\ decision.matched /\ decision.tool = "get_member_information_by_name" =>
    /\ PossessiveCandidates # {} => decision.arg \in PossessiveCandidates
    /\ PossessiveCandidates = {} => decision.arg \in TriggerCandidates

C21_BothExtractorsYieldAName ==
  /\ pc = "done"
  /\ user_message = "find Juan Santos's info"
  /\ "juan santos's" \in TriggerCandidates
  /\ decision.tool = "get_member_information_by_name"
  /\ decision.arg = "Juan Santos"

\* the window of prior messages the claim gives an intent
ClaimedWindow(i) ==
  CASE i \in {"analytical", "member_lookup"} -> 0
    [] i = "operational" -> 1
    [] i = "informational" -> 2

\* the prior messages of the request: all but the system context and the
\* user message
PriorMessages == SubSeq(messages, 2, Len(messages) - 1)

\* C22: the request sent to the generative backend holds
\* min(history length, w(intent)) prior messages, w being 0 for analytical
\* and member_lookup, 1 for operational and 2 for informational: never more
\* than 2, and the most recent ones of the history, in order.
C22_PromptHoldsRecentWindow ==
  [][pc = "generate" /\ pc' = "done" =>
      LET h == conversation_history
          n == Min({Len(h), ClaimedWindow(intent.intent)})
      IN /\ Len(messages') = n + 2
         /\ n <= 2
         /\ \A k \in 1..n : messages'[1 + k] = h[Len(h) - n + k]
         /\ messages'[1].role = "system"
         /\ messages'[n + 2] = [role |-> "user", content |-> user_message]]_vars

C22_TwoOfFourIncluded ==
  /\ pc = "done"
  /\ intent.intent = "informational"
  /\ result.success = FALSE
  /\ conversation_history = StoredConversation
  /\ PriorMessages = <<StoredConversation[3], StoredConversation[4]>>

\* a corpus as written is well-formed: no topic key twice, no entry with an
\* empty keyword set
WellFormedCorpus(items) ==
  /\ \A i \in 1..Len(items) : \A j \in 1..Len(items) : items[i].key = items[j].key => i = j
  /\ \A i \in 1..Len(items) : items[i].keywords # <<>>

\* C23: a FAQ corpus with a duplicate topic key or with an entry whose
\* keyword set is empty is rejected when the tables are loaded: the tables
\* are never in place, and no query is ever matched, for such a corpus.
C23_MalformedCorpusIsRejected ==
  pc \in {"faq_check", "done"} => WellFormedCorpus(output)

\* what each query gets when it is processed alone
Alone ==
  [u \in {"member", "staff"}, query \in ConcurrentQueries |->
     [faq |-> find_faq_match(query),
      intent |-> detect_intent(query),
      decision |-> route_query(u, query)]]

\* C24: whatever the interleaving of the steps of two concurrent queries,
\* each query gets the FAQ result, the intent and the route it gets when it
\* is processed alone, and the FAQ corpus is the one that was loaded.
C24_ConcurrentQueriesAsAlone ==
  /\ pc = "serving" => faq_database = FAQ_DATABASE
  /\ \A t \in DOMAIN threads :
       LET th == threads[t]
           alone == Alone[user, th.user_message]
       IN /\ th.pc # "faq_loop" => th.faq = alone.faq
          /\ th.pc = "route" \/ (th.pc = "done" /\ th.faq.answer = None) =>
               th.intent = alone.intent
          /\ th.pc = "done" /\ th.faq.answer = None /\ uses_router(th.intent.intent) =>
               th.decision = alone.decision

C24_RoutedWhileOtherInFaqLoop ==
  /\ pc = "serving"
  /\ threads[1].pc = "faq_loop" /\ threads[1].user_message = "confirm payment today"
  /\ threads[1].i > 1 /\ threads[1].i <= Len(faq_database) /\ threads[1].best_score > 0
  /\ threads[2].pc = "done" /\ threads[2].user_message = "revenue"
  /\ threads[2].decision.tool = "get_revenue_report"

\* the FAQ keywords that occur in the lower-cased query
FaqKeywordsIn(query) ==
  LET in_query_lower == Substrings(lower(query))
  IN UNION {{FAQ_DATABASE[i].keywords[k] : k \in 1..Len(FAQ_DATABASE[i].keywords)}
            : i \in 1..Len(FAQ_DATABASE)} \cap in_query_lower

\* C25: through chat() the router is reached only by queries whose
\* lower-cased text holds no FAQ keyword; a query that holds "confirm
\* payment" holds the FAQ keywords "confirm" and "payment", is answered by
\* the FAQ fast-path, and the payment-confirmation tool is never called: no
\* payment changes.
C25_ConfirmPaymentStopsAtFaq ==
  /\ pc = "route" \/ (\E k \in 1..Len(calls) : calls[k] = "route_query") =>
       FaqKeywordsIn(user_message) = {}
  /\ pc = "done" /\ In("confirm payment", lower(user_message)) =>
       /\ {"confirm", "payment", "pay"} \subseteq FaqKeywordsIn(user_message)
       /\ result.handled_by = "faq_fastpath"
       /\ calls = <<"find_faq_match">>
  /\ \A k \in 1..Len(calls) : calls[k] # "confirm_payment"
  /\ business.payments = InitialBusiness.payments

C25_StaffConfirmationAnsweredByFaq ==
  /\ pc = "done"
  /\ user = "staff"
  /\ user_message = "confirm payment Pay-20251122-123456"
  /\ route_query(user, user_message).tool = "confirm_payment"
  /\ result.handled_by = "faq_fastpath"
  /\ business.payments[PendingReference] = "pending"

\* C26: chat() runs route_query only for the intents analytical, operational
\* and member_lookup; a query classified informational goes to the
\* generative backend right after detect_intent, the router not run and no
\* tool called, also when a router rule matches it.
C26_InformationalSkipsRouter ==
  /\ pc = "route" \/ (\E k \in 1..Len(calls) : calls[k] = "route_query") =>
       intent.intent \in {"analytical", "operational", "member_lookup"}
  /\ pc = "done" /\ intent.intent = "informational" =>
       /\ calls = <<"find_faq_match", "detect_intent", "_chat_with_ai">>
       /\ decision = Unmatched
       /\ business = InitialBusiness

C26_InactiveNeverRouted ==
  /\ pc = "done"
  /\ user = "staff"
  /\ user_message \in {"inactive", "overview", "dashboard"}
  /\ route_query(user, user_message).matched
  /\ intent.intent = "informational"
  /\ calls = <<"find_faq_match", "detect_intent", "_chat_with_ai">>

C28_HistoryGrowsOnlyWithAnswer ==
  [][IF pc = "generate" /\ result'.success
     THEN conversation_history' =
            conversation_history \o <<[role |-> "user", content |-> user_message],
                                      [role |-> "assistant", content |-> result'.response]>>
     ELSE conversation_history' = conversation_history]_vars

\* the rules of route_query up to the expiring-memberships rule
UpToExpiring ==
  {"revenue", "growth", "attendance", "retention", "plan_popularity",
   "pending_payments", "confirm_payment", "expiring"}

\* C29: a query whose normalized text contains "expir" is decided by the
\* expiring-memberships rule or by a rule before it, so the self-duration
\* rule is never reached for it; a question worded with expire, expires or
\* expiring never routes to the caller's own membership duration.
C29_ExpirStopsBeforeSelfDuration ==
  pc = "done" =>
    /\ In("expir", normalize_query(user_message)) =>
         /\ decision.matched
         /\ decision.rule \in UpToExpiring
         /\ decision.rule = "expiring" => decision.tool = "find_expiring_memberships"
    /\ In("expire", lower(user_message)) \/ In("expiring", lower(user_message)) =>
         decision.tool # "get_my_membership_duration"

C29_OwnExpiryQuestionGoesToStaffTool ==
  /\ pc = "done"
  /\ user = "member"
  /\ user_message = "how long until my plan expires"
  /\ self_duration_rule(Texts(user_message)).matched
  /\ decision.rule = "expiring"
  /\ decision.tool = "find_expiring_memberships"
  /\ reply = "denied"

\* C30: a confirmation changes a payment only when the caller is staff or
\* admin and the payment is pending: that payment becomes confirmed with the
\* caller as approver and every other payment stays as it was. A call for an
\* unknown reference or for a payment already confirmed or rejected changes
\* no payment and reports an error, so the second confirmation of a
\* reference is an error.
C30_ConfirmOnlyPendingByStaff ==
  [][LET r == user_message'
         known == r \in DOMAIN business.payments
         allowed == user' \in {"staff", "admin"}
     IN /\ DOMAIN business'.payments = DOMAIN business.payments
        /\ \A p \in DOMAIN business.payments \ {r} :
             /\ business'.payments[p] = business.payments[p]
             /\ business'.approved_by[p] = business.approved_by[p]
        /\ IF known /\ allowed /\ business.payments[r] = "pending"
           THEN /\ business'.payments[r] = "confirmed"
                /\ business'.approved_by[r] = user'
                /\ reply' = "answer"
           ELSE /\ business'.payments = business.payments
                /\ business'.approved_by = business.approved_by
                /\ business'.audit = business.audit
                /\ reply' = IF allowed THEN "error" ELSE "denied"]_vars

C30_SecondConfirmationIsAnError ==
  /\ user = "admin"
  /\ user_message = PendingReference
  /\ reply = "error"
  /\ business.payments[PendingReference] = "confirmed"
  /\ business.approved_by[PendingReference] = "staff"
  /\ business.payments[SecondPendingReference] = "pending"
  /\ business.audit = <<"payment_received">>
====
